---------------------------- MODULE Spec2Model ----------------------------
(***************************************************************************)
(* A model of nanopy.rpc.RPC (src/nanopy/rpc.py): the construction of the  *)
(* client from its url, the two transports behind _post, disconnect, and   *)
(* the command methods that build the payload of every node command.       *)
(*                                                                         *)
(* Three specifications share the module:                                  *)
(*   SpecBuild  the command methods as pure functions of their arguments:  *)
(*              Init draws a command and its arguments, BuildStep builds   *)
(*              the payload the method hands to _post;                     *)
(*   Spec       one client, several callers, the node and the network:     *)
(*              every interleaving of the steps of _post and disconnect;   *)
(*   SpecSeq    as Spec, with the callers strictly one after another and   *)
(*              reads that block until a message arrives.                  *)
(***************************************************************************)
EXTENDS Integers, Sequences, FiniteSets, TLC

(***************************************************************************)
(* Bounds of the model.                                                    *)
(***************************************************************************)
\* Integer arguments range over 0..MaxInt.
MaxInt == 2
\* Calls made on one client shared by concurrent callers (Spec).
MaxCalls == 2
\* Calls made on one client used by one caller at a time (SpecSeq).
MaxSeqCalls == 3
\* disconnect() calls over the lifetime of one client.
MaxDisconnects == 2

(***************************************************************************)
(* Python values.  A value carries its type, as in Python: the command     *)
(* methods test truthiness and isinstance, and json.dumps writes each type *)
(* its own way.                                                            *)
(***************************************************************************)
PyStr(s) == [str |-> s]
PyInt(n) == [int |-> n]
PyBool(b) == [bool |-> b]
\* A list of values.
PyList(xs) == [list |-> xs]
\* A dict: its items, <<[k |-> key, v |-> value], ...>>, in insertion order.
PyDict(items) == [dict |-> items]
PyNone == [none |-> "None"]

\* type(x).__name__
TypeOf(x) == CHOOSE n \in DOMAIN x : TRUE

\* What x holds: a string, a number, a boolean, a sequence.
ValOf(x) == x[TypeOf(x)]

\* bool(x): what `if x:` tests.
Truthy(x) ==
  CASE TypeOf(x) = "bool" -> x.bool
    [] TypeOf(x) = "int"  -> x.int # 0
    [] TypeOf(x) = "str"  -> x.str # ""
    [] TypeOf(x) = "list" -> Len(x.list) > 0
    [] TypeOf(x) = "dict" -> Len(x.dict) > 0
    [] TypeOf(x) = "none" -> FALSE

\* isinstance(x, str)
isinstance_str(x) == TypeOf(x) = "str"

\* The number a bool or an int compares as (True == 1 in Python).
PyNum(x) == IF TypeOf(x) = "bool" THEN (IF x.bool THEN 1 ELSE 0) ELSE x.int

\* x == y
PyEq(x, y) ==
  IF TypeOf(x) \in {"int", "bool"} /\ TypeOf(y) \in {"int", "bool"}
  THEN PyNum(x) = PyNum(y)
  ELSE TypeOf(x) = TypeOf(y) /\ ValOf(x) = ValOf(y)

\* x in [xs...]
PyIn(x, xs) == \E i \in 1..Len(xs) : PyEq(x, xs[i])

(***************************************************************************)
(* data: dict[str, Any] = {} and data[key] = value.  A dict keeps its keys  *)
(* in insertion order; assigning to a key it holds replaces the value in    *)
(* place.                                                                  *)
(***************************************************************************)
EmptyDict == <<>>

HasKey(d, key) == \E i \in 1..Len(d) : d[i].k = key

\* d[key], for a key d holds.
GetItem(d, key) == d[CHOOSE i \in 1..Len(d) : d[i].k = key].v

SetItem(d, key, value) ==
  IF HasKey(d, key)
  THEN [i \in 1..Len(d) |-> IF d[i].k = key THEN [k |-> key, v |-> value] ELSE d[i]]
  ELSE Append(d, [k |-> key, v |-> value])

\* The keys of d, in order.
Keys(d) == [i \in 1..Len(d) |-> d[i].k]

(***************************************************************************)
(* The argument values the model draws.  Strings are the empty string and  *)
(* one non-empty string; a block is a string or a structured object.       *)
(***************************************************************************)
StrDom == {PyStr(""), PyStr("a")}
IntDom == {PyInt(n) : n \in 0..MaxInt}
BoolDom == {PyBool(TRUE), PyBool(FALSE)}
ListDom == {PyList(<<>>), PyList(<<PyStr("a")>>)}
OptListDom == ListDom \cup {PyNone}
DictDom == {PyDict(<<>>), PyDict(<<[k |-> "type", v |-> PyStr("state")]>>)}
BlockDom == StrDom \cup DictDom
\* version: the default, another version, no version.
VersionDom == {PyStr("work_1"), PyStr("work_2"), PyStr("")}
\* telemetry's port: int = 7075
DefaultTelemetryPort == 7075
PortDom == IntDom \cup {PyInt(DefaultTelemetryPort)}
\* The arguments of a command that takes none.
NoArgs == <<>>

(***************************************************************************)
(* json.dumps.  Text is a string; a string value is written between quotes *)
(* with the quotes inside it escaped.  The only strings of the model that  *)
(* hold a quote are the serialized blocks json.dumps(block) makes, so the  *)
(* escaped form of a string is looked up among those (whose own strings    *)
(* hold no quote: esc is FALSE while they are written for the lookup).     *)
(***************************************************************************)
RECURSIVE dumps(_, _, _)
\* json.dumps(x) with q as the quote mark of this nesting level.
dumps(x, q, esc) ==
  LET nested == "\\" \o q
      serialized(b, s) == Len(b.dict) > 0 /\ dumps(b, "\"", FALSE) = s
      escape(s) ==
        IF esc /\ \E b \in DictDom : serialized(b, s)
        THEN dumps(CHOOSE b \in DictDom : serialized(b, s), nested, FALSE)
        ELSE s
      RECURSIVE join(_, _)
      join(xs, i) ==
        IF i > Len(xs) THEN ""
        ELSE (IF i > 1 THEN ", " ELSE "") \o dumps(xs[i], q, esc) \o join(xs, i + 1)
      RECURSIVE items(_, _)
      items(d, i) ==
        IF i > Len(d) THEN ""
        ELSE (IF i > 1 THEN ", " ELSE "") \o q \o d[i].k \o q \o ": "
             \o dumps(d[i].v, q, esc) \o items(d, i + 1)
  IN  CASE TypeOf(x) = "str"  -> q \o escape(x.str) \o q
        [] TypeOf(x) = "int"  -> ToString(x.int)
        [] TypeOf(x) = "bool" -> (IF x.bool THEN "true" ELSE "false")
        [] TypeOf(x) = "none" -> "null"
        [] TypeOf(x) = "list" -> "[" \o join(x.list, 1) \o "]"
        [] TypeOf(x) = "dict" -> "{" \o items(x.dict, 1) \o "}"

\* json.dumps(x)
json_dumps(x) == dumps(x, "\"", TRUE)

(***************************************************************************)
(* The command methods (Node RPCs, Wallet RPCs, Unit conversion RPCs).     *)
(* Each operator is the dict the method has built when it calls            *)
(* self._post(data), statement by statement.  A parameter whose name is    *)
(* also the name of a command is written <name>_arg.                       *)
(***************************************************************************)
account_balance(account, include_only_confirmed) ==
  LET d1 == EmptyDict
      d2 == SetItem(d1, "action", PyStr("account_balance"))
      d3 == SetItem(d2, "account", account)
      d4 == IF ~Truthy(include_only_confirmed)
            THEN SetItem(d3, "include_only_confirmed", PyBool(FALSE))
            ELSE d3
  IN  d4

account_block_count(account) ==
  LET d1 == EmptyDict
      d2 == SetItem(d1, "action", PyStr("account_block_count"))
      d3 == SetItem(d2, "account", account)
  IN  d3

account_get(key) ==
  LET d1 == EmptyDict
      d2 == SetItem(d1, "action", PyStr("account_get"))
      d3 == SetItem(d2, "key", key)
  IN  d3

account_history(account, count, raw, head, offset, reverse, account_filter) ==
  LET d1 == EmptyDict
      d2 == SetItem(d1, "action", PyStr("account_history"))
      d3 == SetItem(d2, "account", account)
      d4 == SetItem(d3, "count", count)
      d5 == IF Truthy(raw)
            THEN SetItem(d4, "raw", PyBool(TRUE))
            ELSE d4
      d6 == IF Truthy(head)
            THEN SetItem(d5, "head", head)
            ELSE d5
      d7 == IF Truthy(offset)
            THEN SetItem(d6, "offset", offset)
            ELSE d6
      d8 == IF Truthy(reverse)
            THEN SetItem(d7, "reverse", reverse)
            ELSE d7
      d9 == IF Truthy(account_filter)
            THEN SetItem(d8, "account_filter", account_filter)
            ELSE d8
  IN  d9

account_info(account, include_confirmed, representative, weight, pending) ==
  LET d1 == EmptyDict
      d2 == SetItem(d1, "action", PyStr("account_info"))
      d3 == SetItem(d2, "account", account)
      d4 == IF Truthy(include_confirmed)
            THEN SetItem(d3, "include_confirmed", PyBool(TRUE))
            ELSE d3
      d5 == IF Truthy(representative)
            THEN SetItem(d4, "representative", PyBool(TRUE))
            ELSE d4
      d6 == IF Truthy(weight)
            THEN SetItem(d5, "weight", PyBool(TRUE))
            ELSE d5
      d7 == IF Truthy(pending)
            THEN SetItem(d6, "pending", PyBool(TRUE))
            ELSE d6
  IN  d7

(* account_key writing account only when it is non-empty.                  *)
account_key_if_truthy(account) ==
  LET d1 == EmptyDict
      d2 == SetItem(d1, "action", PyStr("account_key"))
  IN  IF Truthy(account) THEN SetItem(d2, "account", account) ELSE d2

account_key(account) ==
  LET d1 == EmptyDict
      d2 == SetItem(d1, "action", PyStr("account_key"))
      d3 == SetItem(d2, "account", account)
  IN  d3

account_representative(account) ==
  LET d1 == EmptyDict
      d2 == SetItem(d1, "action", PyStr("account_representative"))
      d3 == SetItem(d2, "account", account)
  IN  d3

account_weight(account) ==
  LET d1 == EmptyDict
      d2 == SetItem(d1, "action", PyStr("account_weight"))
      d3 == SetItem(d2, "account", account)
  IN  d3

accounts_balances(accounts, include_only_confirmed) ==
  LET d1 == EmptyDict
      d2 == SetItem(d1, "action", PyStr("accounts_balances"))
      d3 == SetItem(d2, "accounts", accounts)
      d4 == IF ~Truthy(include_only_confirmed)
            THEN SetItem(d3, "include_only_confirmed", PyBool(FALSE))
            ELSE d3
  IN  d4

accounts_frontiers(accounts) ==
  LET d1 == EmptyDict
      d2 == SetItem(d1, "action", PyStr("accounts_frontiers"))
      d3 == SetItem(d2, "accounts", accounts)
  IN  d3

accounts_receivable(accounts, count, threshold, source, include_active, sorting, include_only_confirmed) ==
  LET d1 == EmptyDict
      d2 == SetItem(d1, "action", PyStr("accounts_receivable"))
      d3 == SetItem(d2, "accounts", accounts)
      d4 == SetItem(d3, "count", count)
      d5 == IF Truthy(threshold)
            THEN SetItem(d4, "threshold", threshold)
            ELSE d4
      d6 == IF Truthy(source)
            THEN SetItem(d5, "source", PyBool(TRUE))
            ELSE d5
      d7 == IF Truthy(include_active)
            THEN SetItem(d6, "include_active", PyBool(TRUE))
            ELSE d6
      d8 == IF Truthy(sorting)
            THEN SetItem(d7, "sorting", PyBool(TRUE))
            ELSE d7
      d9 == IF ~Truthy(include_only_confirmed)
            THEN SetItem(d8, "include_only_confirmed", PyBool(FALSE))
            ELSE d8
  IN  d9

accounts_representatives(accounts) ==
  LET d1 == EmptyDict
      d2 == SetItem(d1, "action", PyStr("accounts_representatives"))
      d3 == SetItem(d2, "accounts", accounts)
  IN  d3

available_supply ==
  LET d1 == EmptyDict
      d2 == SetItem(d1, "action", PyStr("available_supply"))
  IN  d2

block_account(_hash) ==
  LET d1 == EmptyDict
      d2 == SetItem(d1, "action", PyStr("block_account"))
      d3 == SetItem(d2, "hash", _hash)
  IN  d3

block_confirm(_hash) ==
  LET d1 == EmptyDict
      d2 == SetItem(d1, "action", PyStr("block_confirm"))
      d3 == SetItem(d2, "hash", _hash)
  IN  d3

(* block_count with the usual polarity: the flag written when true.        *)
block_count_emit_if_true(include_cemented) ==
  LET d1 == EmptyDict
      d2 == SetItem(d1, "action", PyStr("block_count"))
  IN  IF Truthy(include_cemented)
        THEN SetItem(d2, "include_cemented", PyBool(TRUE))
        ELSE d2

block_count(include_cemented) ==
  LET d1 == EmptyDict
      d2 == SetItem(d1, "action", PyStr("block_count"))
      d3 == IF ~Truthy(include_cemented)
            THEN SetItem(d2, "include_cemented", PyBool(FALSE))
            ELSE d2
  IN  d3

block_create(balance, representative, previous, wallet, account, key, source, destination, link, work, version_arg, json_block, difficulty) ==
  LET d1 == EmptyDict
      d2 == SetItem(d1, "action", PyStr("block_create"))
      d3 == SetItem(d2, "type", PyStr("state"))
      d4 == SetItem(d3, "balance", balance)
      d5 == IF Truthy(wallet)
            THEN SetItem(d4, "wallet", wallet)
            ELSE d4
      d6 == IF Truthy(account)
            THEN SetItem(d5, "account", account)
            ELSE d5
      d7 == IF Truthy(key)
            THEN SetItem(d6, "key", key)
            ELSE d6
      d8 == IF Truthy(source)
            THEN SetItem(d7, "source", source)
            ELSE d7
      d9 == IF Truthy(destination)
            THEN SetItem(d8, "destination", destination)
            ELSE d8
      d10 == IF Truthy(link)
             THEN SetItem(d9, "link", link)
             ELSE d9
      d11 == SetItem(d10, "representative", representative)
      d12 == SetItem(d11, "previous", previous)
      d13 == IF Truthy(work)
             THEN SetItem(d12, "work", work)
             ELSE IF Truthy(difficulty)
                  THEN SetItem(d12, "difficulty", difficulty)
                  ELSE d12
      d14 == IF PyIn(version_arg, <<PyStr("work_1")>>)
             THEN SetItem(d13, "version", version_arg)
             ELSE d13
      d15 == IF Truthy(json_block)
             THEN SetItem(d14, "json_block", PyBool(TRUE))
             ELSE d14
  IN  d15

block_hash(block, json_block) ==
  LET d1 == EmptyDict
      d2 == SetItem(d1, "action", PyStr("block_hash"))
      d3 == SetItem(d2, "block", block)
      d4 == IF Truthy(json_block)
            THEN SetItem(d3, "json_block", PyBool(TRUE))
            ELSE d3
  IN  d4

block_info(_hash, json_block) ==
  LET d1 == EmptyDict
      d2 == SetItem(d1, "action", PyStr("block_info"))
      d3 == SetItem(d2, "hash", _hash)
      d4 == IF Truthy(json_block)
            THEN SetItem(d3, "json_block", PyBool(TRUE))
            ELSE d3
  IN  d4

blocks(hashes, json_block) ==
  LET d1 == EmptyDict
      d2 == SetItem(d1, "action", PyStr("blocks"))
      d3 == SetItem(d2, "hashes", hashes)
      d4 == IF Truthy(json_block)
            THEN SetItem(d3, "json_block", PyBool(TRUE))
            ELSE d3
  IN  d4

blocks_info(hashes, pending, source, receive_hash, json_block, include_not_found) ==
  LET d1 == EmptyDict
      d2 == SetItem(d1, "action", PyStr("blocks_info"))
      d3 == SetItem(d2, "hashes", hashes)
      d4 == IF Truthy(pending)
            THEN SetItem(d3, "pending", PyBool(TRUE))
            ELSE d3
      d5 == IF Truthy(source)
            THEN SetItem(d4, "source", PyBool(TRUE))
            ELSE d4
      d6 == IF Truthy(receive_hash)
            THEN SetItem(d5, "receive_hash", PyBool(TRUE))
            ELSE d5
      d7 == IF Truthy(json_block)
            THEN SetItem(d6, "json_block", PyBool(TRUE))
            ELSE d6
      d8 == IF Truthy(include_not_found)
            THEN SetItem(d7, "include_not_found", PyBool(TRUE))
            ELSE d7
  IN  d8

bootstrap(address, port, bypass_frontier_confirmation, _id) ==
  LET d1 == EmptyDict
      d2 == SetItem(d1, "action", PyStr("bootstrap"))
      d3 == SetItem(d2, "address", address)
      d4 == SetItem(d3, "port", port)
      d5 == IF Truthy(_id)
            THEN SetItem(d4, "id", _id)
            ELSE d4
      d6 == IF Truthy(bypass_frontier_confirmation)
            THEN SetItem(d5, "bypass_frontier_confirmation", PyBool(TRUE))
            ELSE d5
  IN  d6

bootstrap_any(force, _id, account) ==
  LET d1 == EmptyDict
      d2 == SetItem(d1, "action", PyStr("bootstrap_any"))
      d3 == IF Truthy(force)
            THEN SetItem(d2, "force", PyBool(TRUE))
            ELSE d2
      d4 == IF Truthy(_id)
            THEN SetItem(d3, "id", _id)
            ELSE d3
      d5 == IF Truthy(account)
            THEN SetItem(d4, "account", account)
            ELSE d4
  IN  d5

bootstrap_lazy(hash_, force, _id) ==
  LET d1 == EmptyDict
      d2 == SetItem(d1, "action", PyStr("bootstrap_lazy"))
      d3 == SetItem(d2, "hash", hash_)
      d4 == IF Truthy(force)
            THEN SetItem(d3, "force", PyBool(TRUE))
            ELSE d3
      d5 == IF Truthy(_id)
            THEN SetItem(d4, "id", _id)
            ELSE d4
  IN  d5

bootstrap_status ==
  LET d1 == EmptyDict
      d2 == SetItem(d1, "action", PyStr("bootstrap_status"))
  IN  d2

(* chain writing count only when it is non-zero.                           *)
chain_count_if_truthy(block, count, offset, reverse) ==
  LET d1 == EmptyDict
      d2 == SetItem(d1, "action", PyStr("chain"))
      d3 == SetItem(d2, "block", block)
      d4 == IF Truthy(count) THEN SetItem(d3, "count", count) ELSE d3
      d5 == IF Truthy(offset) THEN SetItem(d4, "offset", offset) ELSE d4
  IN  IF Truthy(reverse) THEN SetItem(d5, "reverse", PyBool(TRUE)) ELSE d5

chain(block, count, offset, reverse) ==
  LET d1 == EmptyDict
      d2 == SetItem(d1, "action", PyStr("chain"))
      d3 == SetItem(d2, "block", block)
      d4 == SetItem(d3, "count", count)
      d5 == IF Truthy(offset)
            THEN SetItem(d4, "offset", offset)
            ELSE d4
      d6 == IF Truthy(reverse)
            THEN SetItem(d5, "reverse", PyBool(TRUE))
            ELSE d5
  IN  d6

confirmation_active(announcements) ==
  LET d1 == EmptyDict
      d2 == SetItem(d1, "action", PyStr("confirmation_active"))
      d3 == IF Truthy(announcements)
            THEN SetItem(d2, "announcements", announcements)
            ELSE d2
  IN  d3

confirmation_height_currently_processing ==
  LET d1 == EmptyDict
      d2 == SetItem(d1, "action", PyStr("confirmation_height_currently_processing"))
  IN  d2

confirmation_history(_hash) ==
  LET d1 == EmptyDict
      d2 == SetItem(d1, "action", PyStr("confirmation_history"))
      d3 == IF Truthy(_hash)
            THEN SetItem(d2, "hash", _hash)
            ELSE d2
  IN  d3

confirmation_info(root, contents, representatives_arg, json_block) ==
  LET d1 == EmptyDict
      d2 == SetItem(d1, "action", PyStr("confirmation_info"))
      d3 == SetItem(d2, "root", root)
      d4 == IF ~Truthy(contents)
            THEN SetItem(d3, "contents", PyBool(FALSE))
            ELSE d3
      d5 == IF Truthy(representatives_arg)
            THEN SetItem(d4, "representatives", PyBool(TRUE))
            ELSE d4
      d6 == IF Truthy(json_block)
            THEN SetItem(d5, "json_block", PyBool(TRUE))
            ELSE d5
  IN  d6

confirmation_quorum(peer_details) ==
  LET d1 == EmptyDict
      d2 == SetItem(d1, "action", PyStr("confirmation_quorum"))
      d3 == IF Truthy(peer_details)
            THEN SetItem(d2, "peer_details", PyBool(TRUE))
            ELSE d2
  IN  d3

database_txn_tracker(min_read_time, min_write_time) ==
  LET d1 == EmptyDict
      d2 == SetItem(d1, "action", PyStr("database_txn_tracker"))
      d3 == SetItem(d2, "min_read_time", min_read_time)
      d4 == SetItem(d3, "min_write_time", min_write_time)
  IN  d4

delegators(account, threshold, count, start) ==
  LET d1 == EmptyDict
      d2 == SetItem(d1, "action", PyStr("delegators"))
      d3 == SetItem(d2, "account", account)
      d4 == IF Truthy(threshold)
            THEN SetItem(d3, "threshold", threshold)
            ELSE d3
      d5 == IF Truthy(count)
            THEN SetItem(d4, "count", count)
            ELSE d4
      d6 == IF Truthy(start)
            THEN SetItem(d5, "start", start)
            ELSE d5
  IN  d6

delegators_count(account) ==
  LET d1 == EmptyDict
      d2 == SetItem(d1, "action", PyStr("delegators_count"))
      d3 == SetItem(d2, "account", account)
  IN  d3

deterministic_key(seed, index) ==
  LET d1 == EmptyDict
      d2 == SetItem(d1, "action", PyStr("deterministic_key"))
      d3 == SetItem(d2, "seed", seed)
      d4 == SetItem(d3, "index", index)
  IN  d4

election_statistics ==
  LET d1 == EmptyDict
      d2 == SetItem(d1, "action", PyStr("election_statistics"))
  IN  d2

epoch_upgrade(epoch, key, count, threads) ==
  LET d1 == EmptyDict
      d2 == SetItem(d1, "action", PyStr("epoch_upgrade"))
      d3 == SetItem(d2, "epoch", epoch)
      d4 == SetItem(d3, "key", key)
      d5 == IF Truthy(count)
            THEN SetItem(d4, "count", count)
            ELSE d4
      d6 == IF Truthy(threads)
            THEN SetItem(d5, "threads", threads)
            ELSE d5
  IN  d6

frontier_count ==
  LET d1 == EmptyDict
      d2 == SetItem(d1, "action", PyStr("frontier_count"))
  IN  d2

frontiers(account, count) ==
  LET d1 == EmptyDict
      d2 == SetItem(d1, "action", PyStr("frontiers"))
      d3 == SetItem(d2, "account", account)
      d4 == SetItem(d3, "count", count)
  IN  d4

keepalive(address, port) ==
  LET d1 == EmptyDict
      d2 == SetItem(d1, "action", PyStr("keepalive"))
      d3 == SetItem(d2, "address", address)
      d4 == SetItem(d3, "port", port)
  IN  d4

key_create ==
  LET d1 == EmptyDict
      d2 == SetItem(d1, "action", PyStr("key_create"))
  IN  d2

key_expand(key) ==
  LET d1 == EmptyDict
      d2 == SetItem(d1, "action", PyStr("key_expand"))
      d3 == SetItem(d2, "key", key)
  IN  d3

ledger(account, count, representative, weight, receivable_arg, modified_since, sorting, threshold) ==
  LET d1 == EmptyDict
      d2 == SetItem(d1, "action", PyStr("ledger"))
      d3 == SetItem(d2, "account", account)
      d4 == SetItem(d3, "count", count)
      d5 == IF Truthy(representative)
            THEN SetItem(d4, "representative", PyBool(TRUE))
            ELSE d4
      d6 == IF Truthy(weight)
            THEN SetItem(d5, "weight", PyBool(TRUE))
            ELSE d5
      d7 == IF Truthy(receivable_arg)
            THEN SetItem(d6, "receivable", PyBool(TRUE))
            ELSE d6
      d8 == IF Truthy(modified_since)
            THEN SetItem(d7, "modified_since", modified_since)
            ELSE d7
      d9 == IF Truthy(sorting)
            THEN SetItem(d8, "sorting", PyBool(TRUE))
            ELSE d8
      d10 == IF Truthy(threshold)
             THEN SetItem(d9, "threshold", threshold)
             ELSE d9
  IN  d10

node_id ==
  LET d1 == EmptyDict
      d2 == SetItem(d1, "action", PyStr("node_id"))
  IN  d2

node_id_delete ==
  LET d1 == EmptyDict
      d2 == SetItem(d1, "action", PyStr("node_id_delete"))
  IN  d2

peers(peer_details) ==
  LET d1 == EmptyDict
      d2 == SetItem(d1, "action", PyStr("peers"))
      d3 == IF Truthy(peer_details)
            THEN SetItem(d2, "peer_details", PyBool(TRUE))
            ELSE d2
  IN  d3

populate_backlog ==
  LET d1 == EmptyDict
      d2 == SetItem(d1, "action", PyStr("populate_backlog"))
  IN  d2

process(block, force, subtype, json_block, watch_work, _async) ==
  LET d1 == EmptyDict
      d2 == SetItem(d1, "action", PyStr("process"))
      d3 == SetItem(d2, "block", block)
      d4 == IF Truthy(force)
            THEN SetItem(d3, "force", PyBool(TRUE))
            ELSE d3
      d5 == IF Truthy(subtype)
            THEN SetItem(d4, "subtype", subtype)
            ELSE d4
      d6 == IF Truthy(json_block)
            THEN SetItem(d5, "json_block", PyBool(TRUE))
            ELSE d5
      d7 == IF ~Truthy(watch_work)
            THEN SetItem(d6, "watch_work", PyBool(FALSE))
            ELSE d6
      d8 == IF Truthy(_async)
            THEN SetItem(d7, "async", PyBool(TRUE))
            ELSE d7
  IN  d8

receivable(account, count, threshold, source, include_active, min_version, sorting, include_only_confirmed) ==
  LET d1 == EmptyDict
      d2 == SetItem(d1, "action", PyStr("receivable"))
      d3 == SetItem(d2, "account", account)
      d4 == IF Truthy(count)
            THEN SetItem(d3, "count", count)
            ELSE d3
      d5 == IF Truthy(threshold)
            THEN SetItem(d4, "threshold", threshold)
            ELSE d4
      d6 == IF Truthy(source)
            THEN SetItem(d5, "source", PyBool(TRUE))
            ELSE d5
      d7 == IF Truthy(include_active)
            THEN SetItem(d6, "include_active", PyBool(TRUE))
            ELSE d6
      d8 == IF Truthy(min_version)
            THEN SetItem(d7, "min_version", PyBool(TRUE))
            ELSE d7
      d9 == IF Truthy(sorting)
            THEN SetItem(d8, "sorting", PyBool(TRUE))
            ELSE d8
      d10 == IF ~Truthy(include_only_confirmed)
             THEN SetItem(d9, "include_only_confirmed", PyBool(FALSE))
             ELSE d9
  IN  d10

receivable_exists(_hash, include_active, include_only_confirmed) ==
  LET d1 == EmptyDict
      d2 == SetItem(d1, "action", PyStr("receivable_exists"))
      d3 == SetItem(d2, "hash", _hash)
      d4 == IF Truthy(include_active)
            THEN SetItem(d3, "include_active", PyBool(TRUE))
            ELSE d3
      d5 == IF ~Truthy(include_only_confirmed)
            THEN SetItem(d4, "include_only_confirmed", PyBool(FALSE))
            ELSE d4
  IN  d5

representatives(count, sorting) ==
  LET d1 == EmptyDict
      d2 == SetItem(d1, "action", PyStr("representatives"))
      d3 == SetItem(d2, "count", count)
      d4 == IF Truthy(sorting)
            THEN SetItem(d3, "sorting", PyBool(TRUE))
            ELSE d3
  IN  d4

representatives_online(weight, accounts) ==
  LET d1 == EmptyDict
      d2 == SetItem(d1, "action", PyStr("representatives_online"))
      d3 == IF Truthy(weight)
            THEN SetItem(d2, "weight", PyBool(TRUE))
            ELSE d2
      d4 == IF Truthy(accounts)
            THEN SetItem(d3, "accounts", accounts)
            ELSE d3
  IN  d4

(* republish testing destinations only when sources is zero (elif).        *)
republish_exclusive(_hash, count, sources, destinations) ==
  LET d1 == EmptyDict
      d2 == SetItem(d1, "action", PyStr("republish"))
      d3 == SetItem(d2, "hash", _hash)
  IN  IF Truthy(sources)
        THEN SetItem(SetItem(d3, "sources", sources), "count", count)
        ELSE IF Truthy(destinations)
               THEN SetItem(SetItem(d3, "destinations", destinations), "count", count)
               ELSE d3

(* republish writing count only when it is non-zero.                       *)
republish_count_if_truthy(_hash, count, sources, destinations) ==
  LET d1 == EmptyDict
      d2 == SetItem(d1, "action", PyStr("republish"))
      d3 == SetItem(d2, "hash", _hash)
      d4 == IF Truthy(sources) THEN SetItem(d3, "sources", sources) ELSE d3
      d5 == IF Truthy(destinations) THEN SetItem(d4, "destinations", destinations) ELSE d4
      d6 == IF (Truthy(sources) \/ Truthy(destinations)) /\ Truthy(count)
            THEN SetItem(d5, "count", count)
            ELSE d5
  IN  d6

republish(_hash, count, sources, destinations) ==
  LET d1 == EmptyDict
      d2 == SetItem(d1, "action", PyStr("republish"))
      d3 == SetItem(d2, "hash", _hash)
      d4 == IF Truthy(sources)
            THEN LET d5 == SetItem(d3, "sources", sources)
                     d6 == SetItem(d5, "count", count)
                 IN  d6
            ELSE d3
      d7 == IF Truthy(destinations)
            THEN LET d8 == SetItem(d4, "destinations", destinations)
                     d9 == SetItem(d8, "count", count)
                 IN  d9
            ELSE d4
  IN  d7

(* sign writing the block as supplied, without serializing a mapping.      *)
sign_block_as_supplied(key, wallet, account, block, _hash, json_block) ==
  LET d1 == EmptyDict
      d2 == SetItem(d1, "action", PyStr("sign"))
      d3 == IF Truthy(key) THEN SetItem(d2, "key", key) ELSE d2
      d4 == IF Truthy(wallet) THEN SetItem(d3, "wallet", wallet) ELSE d3
      d5 == IF Truthy(account) THEN SetItem(d4, "account", account) ELSE d4
      d6 == SetItem(d5, "block", block)
      d7 == IF Truthy(_hash) THEN SetItem(d6, "_hash", _hash) ELSE d6
  IN  IF Truthy(json_block) THEN SetItem(d7, "json_block", PyBool(TRUE)) ELSE d7

sign(key, wallet, account, block, _hash, json_block) ==
  LET d1 == EmptyDict
      d2 == SetItem(d1, "action", PyStr("sign"))
      d3 == IF Truthy(key)
            THEN SetItem(d2, "key", key)
            ELSE d2
      d4 == IF Truthy(wallet)
            THEN SetItem(d3, "wallet", wallet)
            ELSE d3
      d5 == IF Truthy(account)
            THEN SetItem(d4, "account", account)
            ELSE d4
      d6 == IF isinstance_str(block)
            THEN SetItem(d5, "block", block)
            ELSE SetItem(d5, "block", PyStr(json_dumps(block)))
      d7 == IF Truthy(_hash)
            THEN SetItem(d6, "_hash", _hash)
            ELSE d6
      d8 == IF Truthy(json_block)
            THEN SetItem(d7, "json_block", PyBool(TRUE))
            ELSE d7
  IN  d8

stats(_type) ==
  LET d1 == EmptyDict
      d2 == SetItem(d1, "action", PyStr("stats"))
      d3 == SetItem(d2, "type", _type)
  IN  d3

stats_clear ==
  LET d1 == EmptyDict
      d2 == SetItem(d1, "action", PyStr("stats_clear"))
  IN  d2

stop ==
  LET d1 == EmptyDict
      d2 == SetItem(d1, "action", PyStr("stop"))
  IN  d2

successors(block, count, offset, reverse) ==
  LET d1 == EmptyDict
      d2 == SetItem(d1, "action", PyStr("successors"))
      d3 == SetItem(d2, "block", block)
      d4 == SetItem(d3, "count", count)
      d5 == IF Truthy(offset)
            THEN SetItem(d4, "offset", offset)
            ELSE d4
      d6 == IF Truthy(reverse)
            THEN SetItem(d5, "reverse", PyBool(TRUE))
            ELSE d5
  IN  d6

telemetry(raw, address, port) ==
  LET d1 == EmptyDict
      d2 == SetItem(d1, "action", PyStr("telemetry"))
      d3 == IF Truthy(raw)
            THEN SetItem(d2, "raw", PyBool(TRUE))
            ELSE d2
      d4 == IF Truthy(address)
            THEN LET d5 == SetItem(d3, "address", address)
                     d6 == SetItem(d5, "port", port)
                 IN  d6
            ELSE d3
  IN  d4

validate_account_number(account) ==
  LET d1 == EmptyDict
      d2 == SetItem(d1, "action", PyStr("validate_account_number"))
      d3 == SetItem(d2, "account", account)
  IN  d3

version ==
  LET d1 == EmptyDict
      d2 == SetItem(d1, "action", PyStr("version"))
  IN  d2

unchecked(json_block, count) ==
  LET d1 == EmptyDict
      d2 == SetItem(d1, "action", PyStr("unchecked"))
      d3 == IF Truthy(json_block)
            THEN SetItem(d2, "json_block", PyBool(TRUE))
            ELSE d2
      d4 == SetItem(d3, "count", count)
  IN  d4

unchecked_clear ==
  LET d1 == EmptyDict
      d2 == SetItem(d1, "action", PyStr("unchecked_clear"))
  IN  d2

unchecked_get(_hash, json_block) ==
  LET d1 == EmptyDict
      d2 == SetItem(d1, "action", PyStr("unchecked_get"))
      d3 == SetItem(d2, "hash", _hash)
      d4 == IF Truthy(json_block)
            THEN SetItem(d3, "json_block", PyBool(TRUE))
            ELSE d3
  IN  d4

unchecked_keys(key, count, json_block) ==
  LET d1 == EmptyDict
      d2 == SetItem(d1, "action", PyStr("unchecked_keys"))
      d3 == SetItem(d2, "key", key)
      d4 == SetItem(d3, "count", count)
      d5 == IF Truthy(json_block)
            THEN SetItem(d4, "json_block", PyBool(TRUE))
            ELSE d4
  IN  d5

unopened(account, count, threshold) ==
  LET d1 == EmptyDict
      d2 == SetItem(d1, "action", PyStr("unopened"))
      d3 == IF Truthy(account)
            THEN SetItem(d2, "account", account)
            ELSE d2
      d4 == IF Truthy(count)
            THEN SetItem(d3, "count", count)
            ELSE d3
      d5 == IF Truthy(threshold)
            THEN SetItem(d4, "threshold", threshold)
            ELSE d4
  IN  d5

uptime ==
  LET d1 == EmptyDict
      d2 == SetItem(d1, "action", PyStr("uptime"))
  IN  d2

work_cancel(_hash) ==
  LET d1 == EmptyDict
      d2 == SetItem(d1, "action", PyStr("work_cancel"))
      d3 == SetItem(d2, "hash", _hash)
  IN  d3

(* work_generate testing difficulty on its own (if, not elif).             *)
work_generate_independent(_hash, use_peers, difficulty, multiplier, account, version_arg, block, json_block) ==
  LET d1 == EmptyDict
      d2 == SetItem(d1, "action", PyStr("work_generate"))
      d3 == SetItem(d2, "hash", _hash)
      d4 == IF Truthy(use_peers)
            THEN SetItem(d3, "use_peers", PyBool(TRUE))
            ELSE d3
      d5 == IF Truthy(multiplier)
            THEN SetItem(d4, "multiplier", multiplier)
            ELSE d4
      d6 == IF Truthy(difficulty)
            THEN SetItem(d5, "difficulty", difficulty)
            ELSE d5
      d7 == IF Truthy(account)
            THEN SetItem(d6, "account", account)
            ELSE d6
      d8 == IF PyIn(version_arg, <<PyStr("work_1")>>)
            THEN SetItem(d7, "version", version_arg)
            ELSE d7
      d9 == IF Truthy(block)
            THEN LET d10 == SetItem(d8, "block", block)
                 IN  IF Truthy(json_block)
                       THEN SetItem(d10, "json_block", json_block)
                       ELSE d10
            ELSE d8
  IN  d9

work_generate(_hash, use_peers, difficulty, multiplier, account, version_arg, block, json_block) ==
  LET d1 == EmptyDict
      d2 == SetItem(d1, "action", PyStr("work_generate"))
      d3 == SetItem(d2, "hash", _hash)
      d4 == IF Truthy(use_peers)
            THEN SetItem(d3, "use_peers", PyBool(TRUE))
            ELSE d3
      d5 == IF Truthy(multiplier)
            THEN SetItem(d4, "multiplier", multiplier)
            ELSE IF Truthy(difficulty)
                 THEN SetItem(d4, "difficulty", difficulty)
                 ELSE d4
      d6 == IF Truthy(account)
            THEN SetItem(d5, "account", account)
            ELSE d5
      d7 == IF PyIn(version_arg, <<PyStr("work_1")>>)
            THEN SetItem(d6, "version", version_arg)
            ELSE d6
      d8 == IF Truthy(block)
            THEN LET d9 == SetItem(d7, "block", block)
                     d10 == IF Truthy(json_block)
                            THEN SetItem(d9, "json_block", json_block)
                            ELSE d9
                 IN  d10
            ELSE d7
  IN  d8

work_peer_add(address, port) ==
  LET d1 == EmptyDict
      d2 == SetItem(d1, "action", PyStr("work_peer_add"))
      d3 == SetItem(d2, "address", address)
      d4 == SetItem(d3, "port", port)
  IN  d4

work_peers ==
  LET d1 == EmptyDict
      d2 == SetItem(d1, "action", PyStr("work_peers"))
  IN  d2

work_peers_clear ==
  LET d1 == EmptyDict
      d2 == SetItem(d1, "action", PyStr("work_peers_clear"))
  IN  d2

(* work_validate writing whatever non-empty version it is given.           *)
work_validate_any_version(work, _hash, difficulty, multiplier, version_arg) ==
  LET d1 == EmptyDict
      d2 == SetItem(d1, "action", PyStr("work_validate"))
      d3 == SetItem(d2, "work", work)
      d4 == SetItem(d3, "hash", _hash)
      d5 == IF Truthy(multiplier)
            THEN SetItem(d4, "multiplier", multiplier)
            ELSE IF Truthy(difficulty)
                 THEN SetItem(d4, "difficulty", difficulty)
                 ELSE d4
  IN  IF Truthy(version_arg) THEN SetItem(d5, "version", version_arg) ELSE d5

work_validate(work, _hash, difficulty, multiplier, version_arg) ==
  LET d1 == EmptyDict
      d2 == SetItem(d1, "action", PyStr("work_validate"))
      d3 == SetItem(d2, "work", work)
      d4 == SetItem(d3, "hash", _hash)
      d5 == IF Truthy(multiplier)
            THEN SetItem(d4, "multiplier", multiplier)
            ELSE IF Truthy(difficulty)
                 THEN SetItem(d4, "difficulty", difficulty)
                 ELSE d4
      d6 == IF PyIn(version_arg, <<PyStr("work_1")>>)
            THEN SetItem(d5, "version", version_arg)
            ELSE d5
  IN  d6

account_create(wallet, index, work) ==
  LET d1 == EmptyDict
      d2 == SetItem(d1, "action", PyStr("account_create"))
      d3 == SetItem(d2, "wallet", wallet)
      d4 == IF Truthy(index)
            THEN SetItem(d3, "index", index)
            ELSE d3
      d5 == IF ~Truthy(work)
            THEN SetItem(d4, "work", PyBool(FALSE))
            ELSE d4
  IN  d5

account_list(wallet) ==
  LET d1 == EmptyDict
      d2 == SetItem(d1, "action", PyStr("account_list"))
      d3 == SetItem(d2, "wallet", wallet)
  IN  d3

account_move(wallet, source, accounts) ==
  LET d1 == EmptyDict
      d2 == SetItem(d1, "action", PyStr("account_move"))
      d3 == SetItem(d2, "wallet", wallet)
      d4 == SetItem(d3, "source", source)
      d5 == SetItem(d4, "accounts", accounts)
  IN  d5

account_remove(wallet, account) ==
  LET d1 == EmptyDict
      d2 == SetItem(d1, "action", PyStr("account_remove"))
      d3 == SetItem(d2, "wallet", wallet)
      d4 == SetItem(d3, "account", account)
  IN  d4

account_representative_set(wallet, account, representative, work) ==
  LET d1 == EmptyDict
      d2 == SetItem(d1, "action", PyStr("account_representative_set"))
      d3 == SetItem(d2, "wallet", wallet)
      d4 == SetItem(d3, "account", account)
      d5 == SetItem(d4, "representative", representative)
      d6 == IF Truthy(work)
            THEN SetItem(d5, "work", work)
            ELSE d5
  IN  d6

accounts_create(wallet, count, work) ==
  LET d1 == EmptyDict
      d2 == SetItem(d1, "action", PyStr("accounts_create"))
      d3 == SetItem(d2, "wallet", wallet)
      d4 == SetItem(d3, "count", count)
      d5 == IF ~Truthy(work)
            THEN SetItem(d4, "work", PyBool(FALSE))
            ELSE d4
  IN  d5

password_change(wallet, password) ==
  LET d1 == EmptyDict
      d2 == SetItem(d1, "action", PyStr("password_change"))
      d3 == SetItem(d2, "wallet", wallet)
      d4 == SetItem(d3, "password", password)
  IN  d4

password_enter(wallet, password) ==
  LET d1 == EmptyDict
      d2 == SetItem(d1, "action", PyStr("password_enter"))
      d3 == SetItem(d2, "wallet", wallet)
      d4 == SetItem(d3, "password", password)
  IN  d4

password_valid(wallet) ==
  LET d1 == EmptyDict
      d2 == SetItem(d1, "action", PyStr("password_valid"))
      d3 == SetItem(d2, "wallet", wallet)
  IN  d3

receive(wallet, account, block, work) ==
  LET d1 == EmptyDict
      d2 == SetItem(d1, "action", PyStr("receive"))
      d3 == SetItem(d2, "wallet", wallet)
      d4 == SetItem(d3, "account", account)
      d5 == SetItem(d4, "block", block)
      d6 == IF Truthy(work)
            THEN SetItem(d5, "work", work)
            ELSE d5
  IN  d6

receive_minimum ==
  LET d1 == EmptyDict
      d2 == SetItem(d1, "action", PyStr("receive_minimum"))
  IN  d2

receive_minimum_set(amount) ==
  LET d1 == EmptyDict
      d2 == SetItem(d1, "action", PyStr("receive_minimum_set"))
      d3 == SetItem(d2, "amount", amount)
  IN  d3

search_receivable(wallet) ==
  LET d1 == EmptyDict
      d2 == SetItem(d1, "action", PyStr("search_receivable"))
      d3 == SetItem(d2, "wallet", wallet)
  IN  d3

search_receivable_all ==
  LET d1 == EmptyDict
      d2 == SetItem(d1, "action", PyStr("search_receivable_all"))
  IN  d2

send(wallet, source, destination, amount, _id, work) ==
  LET d1 == EmptyDict
      d2 == SetItem(d1, "action", PyStr("send"))
      d3 == SetItem(d2, "wallet", wallet)
      d4 == SetItem(d3, "source", source)
      d5 == SetItem(d4, "destination", destination)
      d6 == SetItem(d5, "amount", amount)
      d7 == IF Truthy(_id)
            THEN SetItem(d6, "id", _id)
            ELSE d6
      d8 == IF Truthy(work)
            THEN SetItem(d7, "work", work)
            ELSE d7
  IN  d8

wallet_add(wallet, key, work) ==
  LET d1 == EmptyDict
      d2 == SetItem(d1, "action", PyStr("wallet_add"))
      d3 == SetItem(d2, "wallet", wallet)
      d4 == SetItem(d3, "key", key)
      d5 == IF Truthy(work)
            THEN SetItem(d4, "work", PyBool(TRUE))
            ELSE d4
  IN  d5

wallet_add_watch(wallet, accounts) ==
  LET d1 == EmptyDict
      d2 == SetItem(d1, "action", PyStr("wallet_add_watch"))
      d3 == SetItem(d2, "wallet", wallet)
      d4 == SetItem(d3, "accounts", accounts)
  IN  d4

(* wallet_balances writing threshold without testing it.                   *)
wallet_balances_unconditional(wallet, threshold) ==
  LET d1 == EmptyDict
      d2 == SetItem(d1, "action", PyStr("wallet_balances"))
      d3 == SetItem(d2, "wallet", wallet)
  IN  SetItem(d3, "threshold", threshold)

wallet_balances(wallet, threshold) ==
  LET d1 == EmptyDict
      d2 == SetItem(d1, "action", PyStr("wallet_balances"))
      d3 == SetItem(d2, "wallet", wallet)
      d4 == IF Truthy(threshold)
            THEN SetItem(d3, "threshold", threshold)
            ELSE d3
  IN  d4

wallet_change_seed(wallet, seed, count) ==
  LET d1 == EmptyDict
      d2 == SetItem(d1, "action", PyStr("wallet_change_seed"))
      d3 == SetItem(d2, "wallet", wallet)
      d4 == SetItem(d3, "seed", seed)
      d5 == IF Truthy(count)
            THEN SetItem(d4, "count", count)
            ELSE d4
  IN  d5

wallet_contains(wallet, account) ==
  LET d1 == EmptyDict
      d2 == SetItem(d1, "action", PyStr("wallet_contains"))
      d3 == SetItem(d2, "wallet", wallet)
      d4 == SetItem(d3, "account", account)
  IN  d4

wallet_create(seed) ==
  LET d1 == EmptyDict
      d2 == SetItem(d1, "action", PyStr("wallet_create"))
      d3 == IF Truthy(seed)
            THEN SetItem(d2, "seed", seed)
            ELSE d2
  IN  d3

wallet_destroy(wallet) ==
  LET d1 == EmptyDict
      d2 == SetItem(d1, "action", PyStr("wallet_destroy"))
      d3 == SetItem(d2, "wallet", wallet)
  IN  d3

wallet_export(wallet) ==
  LET d1 == EmptyDict
      d2 == SetItem(d1, "action", PyStr("wallet_export"))
      d3 == SetItem(d2, "wallet", wallet)
  IN  d3

wallet_frontiers(wallet) ==
  LET d1 == EmptyDict
      d2 == SetItem(d1, "action", PyStr("wallet_frontiers"))
      d3 == SetItem(d2, "wallet", wallet)
  IN  d3

wallet_history(wallet, modified_since) ==
  LET d1 == EmptyDict
      d2 == SetItem(d1, "action", PyStr("wallet_history"))
      d3 == SetItem(d2, "wallet", wallet)
      d4 == IF Truthy(modified_since)
            THEN SetItem(d3, "modified_since", modified_since)
            ELSE d3
  IN  d4

wallet_info(wallet) ==
  LET d1 == EmptyDict
      d2 == SetItem(d1, "action", PyStr("wallet_info"))
      d3 == SetItem(d2, "wallet", wallet)
  IN  d3

wallet_ledger(wallet, representative, weight, receivable_arg, modified_since) ==
  LET d1 == EmptyDict
      d2 == SetItem(d1, "action", PyStr("wallet_ledger"))
      d3 == SetItem(d2, "wallet", wallet)
      d4 == IF Truthy(representative)
            THEN SetItem(d3, "representative", PyBool(TRUE))
            ELSE d3
      d5 == IF Truthy(weight)
            THEN SetItem(d4, "weight", PyBool(TRUE))
            ELSE d4
      d6 == IF Truthy(receivable_arg)
            THEN SetItem(d5, "receivable", PyBool(TRUE))
            ELSE d5
      d7 == IF Truthy(modified_since)
            THEN SetItem(d6, "modified_since", modified_since)
            ELSE d6
  IN  d7

wallet_lock(wallet) ==
  LET d1 == EmptyDict
      d2 == SetItem(d1, "action", PyStr("wallet_lock"))
      d3 == SetItem(d2, "wallet", wallet)
  IN  d3

wallet_locked(wallet) ==
  LET d1 == EmptyDict
      d2 == SetItem(d1, "action", PyStr("wallet_locked"))
      d3 == SetItem(d2, "wallet", wallet)
  IN  d3

wallet_receivable(wallet, count, threshold, source, include_active, min_version, include_only_confirmed) ==
  LET d1 == EmptyDict
      d2 == SetItem(d1, "action", PyStr("wallet_receivable"))
      d3 == SetItem(d2, "wallet", wallet)
      d4 == SetItem(d3, "count", count)
      d5 == IF Truthy(threshold)
            THEN SetItem(d4, "threshold", threshold)
            ELSE d4
      d6 == IF Truthy(source)
            THEN SetItem(d5, "source", PyBool(TRUE))
            ELSE d5
      d7 == IF Truthy(include_active)
            THEN SetItem(d6, "include_active", PyBool(TRUE))
            ELSE d6
      d8 == IF Truthy(min_version)
            THEN SetItem(d7, "min_version", PyBool(TRUE))
            ELSE d7
      d9 == IF ~Truthy(include_only_confirmed)
            THEN SetItem(d8, "include_only_confirmed", PyBool(FALSE))
            ELSE d8
  IN  d9

wallet_representative(wallet) ==
  LET d1 == EmptyDict
      d2 == SetItem(d1, "action", PyStr("wallet_representative"))
      d3 == SetItem(d2, "wallet", wallet)
  IN  d3

wallet_representative_set(wallet, representative, update_existing_accounts) ==
  LET d1 == EmptyDict
      d2 == SetItem(d1, "action", PyStr("wallet_representative_set"))
      d3 == SetItem(d2, "wallet", wallet)
      d4 == SetItem(d3, "representative", representative)
      d5 == IF Truthy(update_existing_accounts)
            THEN SetItem(d4, "update_existing_accounts", PyBool(TRUE))
            ELSE d4
  IN  d5

wallet_republish(wallet, count) ==
  LET d1 == EmptyDict
      d2 == SetItem(d1, "action", PyStr("wallet_republish"))
      d3 == SetItem(d2, "wallet", wallet)
      d4 == SetItem(d3, "count", count)
  IN  d4

wallet_work_get(wallet) ==
  LET d1 == EmptyDict
      d2 == SetItem(d1, "action", PyStr("wallet_work_get"))
      d3 == SetItem(d2, "wallet", wallet)
  IN  d3

work_get(wallet, account) ==
  LET d1 == EmptyDict
      d2 == SetItem(d1, "action", PyStr("work_get"))
      d3 == SetItem(d2, "wallet", wallet)
      d4 == SetItem(d3, "account", account)
  IN  d4

work_set(wallet, account, work) ==
  LET d1 == EmptyDict
      d2 == SetItem(d1, "action", PyStr("work_set"))
      d3 == SetItem(d2, "wallet", wallet)
      d4 == SetItem(d3, "account", account)
      d5 == SetItem(d4, "work", work)
  IN  d5

nano_to_raw(amount) ==
  LET d1 == EmptyDict
      d2 == SetItem(d1, "action", PyStr("nano_to_raw"))
      d3 == SetItem(d2, "amount", amount)
  IN  d3

raw_to_nano(amount) ==
  LET d1 == EmptyDict
      d2 == SetItem(d1, "action", PyStr("raw_to_nano"))
      d3 == SetItem(d2, "amount", amount)
  IN  d3

(***************************************************************************)
(* The calls the model draws: every command method with every combination  *)
(* of argument values of its parameters' declared types.                   *)
(***************************************************************************)
Calls ==
  {[cmd |-> "account_balance", a |-> r] : r \in [account : StrDom, include_only_confirmed : BoolDom]}
  \cup {[cmd |-> "account_block_count", a |-> r] : r \in [account : StrDom]}
  \cup {[cmd |-> "account_get", a |-> r] : r \in [key : StrDom]}
  \cup {[cmd |-> "account_history", a |-> r] : r \in [account : StrDom, count : IntDom, raw : BoolDom, head : StrDom, offset : IntDom, reverse : BoolDom, account_filter : OptListDom]}
  \cup {[cmd |-> "account_info", a |-> r] : r \in [account : StrDom, include_confirmed : BoolDom, representative : BoolDom, weight : BoolDom, pending : BoolDom]}
  \cup {[cmd |-> "account_key", a |-> r] : r \in [account : StrDom]}
  \cup {[cmd |-> "account_representative", a |-> r] : r \in [account : StrDom]}
  \cup {[cmd |-> "account_weight", a |-> r] : r \in [account : StrDom]}
  \cup {[cmd |-> "accounts_balances", a |-> r] : r \in [accounts : ListDom, include_only_confirmed : BoolDom]}
  \cup {[cmd |-> "accounts_frontiers", a |-> r] : r \in [accounts : ListDom]}
  \cup {[cmd |-> "accounts_receivable", a |-> r] : r \in [accounts : ListDom, count : IntDom, threshold : StrDom, source : BoolDom, include_active : BoolDom, sorting : BoolDom, include_only_confirmed : BoolDom]}
  \cup {[cmd |-> "accounts_representatives", a |-> r] : r \in [accounts : ListDom]}
  \cup {[cmd |-> "available_supply", a |-> NoArgs]}
  \cup {[cmd |-> "block_account", a |-> r] : r \in [_hash : StrDom]}
  \cup {[cmd |-> "block_confirm", a |-> r] : r \in [_hash : StrDom]}
  \cup {[cmd |-> "block_count", a |-> r] : r \in [include_cemented : BoolDom]}
  \cup {[cmd |-> "block_create", a |-> r] : r \in [balance : StrDom, representative : StrDom, previous : StrDom, wallet : StrDom, account : StrDom, key : StrDom, source : StrDom, destination : StrDom, link : StrDom, work : StrDom, version : VersionDom, json_block : BoolDom, difficulty : StrDom]}
  \cup {[cmd |-> "block_hash", a |-> r] : r \in [block : DictDom, json_block : BoolDom]}
  \cup {[cmd |-> "block_info", a |-> r] : r \in [_hash : StrDom, json_block : BoolDom]}
  \cup {[cmd |-> "blocks", a |-> r] : r \in [hashes : ListDom, json_block : BoolDom]}
  \cup {[cmd |-> "blocks_info", a |-> r] : r \in [hashes : ListDom, pending : BoolDom, source : BoolDom, receive_hash : BoolDom, json_block : BoolDom, include_not_found : BoolDom]}
  \cup {[cmd |-> "bootstrap", a |-> r] : r \in [address : StrDom, port : StrDom, bypass_frontier_confirmation : BoolDom, _id : StrDom]}
  \cup {[cmd |-> "bootstrap_any", a |-> r] : r \in [force : BoolDom, _id : StrDom, account : StrDom]}
  \cup {[cmd |-> "bootstrap_lazy", a |-> r] : r \in [hash_ : StrDom, force : BoolDom, _id : StrDom]}
  \cup {[cmd |-> "bootstrap_status", a |-> NoArgs]}
  \cup {[cmd |-> "chain", a |-> r] : r \in [block : StrDom, count : IntDom, offset : IntDom, reverse : BoolDom]}
  \cup {[cmd |-> "confirmation_active", a |-> r] : r \in [announcements : IntDom]}
  \cup {[cmd |-> "confirmation_height_currently_processing", a |-> NoArgs]}
  \cup {[cmd |-> "confirmation_history", a |-> r] : r \in [_hash : StrDom]}
  \cup {[cmd |-> "confirmation_info", a |-> r] : r \in [root : StrDom, contents : BoolDom, representatives : BoolDom, json_block : BoolDom]}
  \cup {[cmd |-> "confirmation_quorum", a |-> r] : r \in [peer_details : BoolDom]}
  \cup {[cmd |-> "database_txn_tracker", a |-> r] : r \in [min_read_time : IntDom, min_write_time : IntDom]}
  \cup {[cmd |-> "delegators", a |-> r] : r \in [account : StrDom, threshold : IntDom, count : IntDom, start : StrDom]}
  \cup {[cmd |-> "delegators_count", a |-> r] : r \in [account : StrDom]}
  \cup {[cmd |-> "deterministic_key", a |-> r] : r \in [seed : StrDom, index : IntDom]}
  \cup {[cmd |-> "election_statistics", a |-> NoArgs]}
  \cup {[cmd |-> "epoch_upgrade", a |-> r] : r \in [epoch : IntDom, key : StrDom, count : IntDom, threads : IntDom]}
  \cup {[cmd |-> "frontier_count", a |-> NoArgs]}
  \cup {[cmd |-> "frontiers", a |-> r] : r \in [account : StrDom, count : IntDom]}
  \cup {[cmd |-> "keepalive", a |-> r] : r \in [address : StrDom, port : IntDom]}
  \cup {[cmd |-> "key_create", a |-> NoArgs]}
  \cup {[cmd |-> "key_expand", a |-> r] : r \in [key : StrDom]}
  \cup {[cmd |-> "ledger", a |-> r] : r \in [account : StrDom, count : IntDom, representative : BoolDom, weight : BoolDom, receivable : BoolDom, modified_since : IntDom, sorting : BoolDom, threshold : IntDom]}
  \cup {[cmd |-> "node_id", a |-> NoArgs]}
  \cup {[cmd |-> "node_id_delete", a |-> NoArgs]}
  \cup {[cmd |-> "peers", a |-> r] : r \in [peer_details : BoolDom]}
  \cup {[cmd |-> "populate_backlog", a |-> NoArgs]}
  \cup {[cmd |-> "process", a |-> r] : r \in [block : BlockDom, force : BoolDom, subtype : StrDom, json_block : BoolDom, watch_work : BoolDom, _async : BoolDom]}
  \cup {[cmd |-> "receivable", a |-> r] : r \in [account : StrDom, count : IntDom, threshold : IntDom, source : BoolDom, include_active : BoolDom, min_version : BoolDom, sorting : BoolDom, include_only_confirmed : BoolDom]}
  \cup {[cmd |-> "receivable_exists", a |-> r] : r \in [_hash : StrDom, include_active : BoolDom, include_only_confirmed : BoolDom]}
  \cup {[cmd |-> "representatives", a |-> r] : r \in [count : IntDom, sorting : BoolDom]}
  \cup {[cmd |-> "representatives_online", a |-> r] : r \in [weight : BoolDom, accounts : OptListDom]}
  \cup {[cmd |-> "republish", a |-> r] : r \in [_hash : StrDom, count : IntDom, sources : IntDom, destinations : IntDom]}
  \cup {[cmd |-> "sign", a |-> r] : r \in [key : StrDom, wallet : StrDom, account : StrDom, block : BlockDom, _hash : StrDom, json_block : BoolDom]}
  \cup {[cmd |-> "stats", a |-> r] : r \in [_type : StrDom]}
  \cup {[cmd |-> "stats_clear", a |-> NoArgs]}
  \cup {[cmd |-> "stop", a |-> NoArgs]}
  \cup {[cmd |-> "successors", a |-> r] : r \in [block : StrDom, count : IntDom, offset : IntDom, reverse : BoolDom]}
  \cup {[cmd |-> "telemetry", a |-> r] : r \in [raw : BoolDom, address : IntDom, port : PortDom]}
  \cup {[cmd |-> "validate_account_number", a |-> r] : r \in [account : StrDom]}
  \cup {[cmd |-> "version", a |-> NoArgs]}
  \cup {[cmd |-> "unchecked", a |-> r] : r \in [json_block : BoolDom, count : IntDom]}
  \cup {[cmd |-> "unchecked_clear", a |-> NoArgs]}
  \cup {[cmd |-> "unchecked_get", a |-> r] : r \in [_hash : StrDom, json_block : BoolDom]}
  \cup {[cmd |-> "unchecked_keys", a |-> r] : r \in [key : StrDom, count : IntDom, json_block : BoolDom]}
  \cup {[cmd |-> "unopened", a |-> r] : r \in [account : StrDom, count : IntDom, threshold : IntDom]}
  \cup {[cmd |-> "uptime", a |-> NoArgs]}
  \cup {[cmd |-> "work_cancel", a |-> r] : r \in [_hash : StrDom]}
  \cup {[cmd |-> "work_generate", a |-> r] : r \in [_hash : StrDom, use_peers : BoolDom, difficulty : StrDom, multiplier : IntDom, account : StrDom, version : VersionDom, block : StrDom, json_block : BoolDom]}
  \cup {[cmd |-> "work_peer_add", a |-> r] : r \in [address : StrDom, port : IntDom]}
  \cup {[cmd |-> "work_peers", a |-> NoArgs]}
  \cup {[cmd |-> "work_peers_clear", a |-> NoArgs]}
  \cup {[cmd |-> "work_validate", a |-> r] : r \in [work : StrDom, _hash : StrDom, difficulty : StrDom, multiplier : IntDom, version : VersionDom]}
  \cup {[cmd |-> "account_create", a |-> r] : r \in [wallet : StrDom, index : IntDom, work : BoolDom]}
  \cup {[cmd |-> "account_list", a |-> r] : r \in [wallet : StrDom]}
  \cup {[cmd |-> "account_move", a |-> r] : r \in [wallet : StrDom, source : StrDom, accounts : ListDom]}
  \cup {[cmd |-> "account_remove", a |-> r] : r \in [wallet : StrDom, account : StrDom]}
  \cup {[cmd |-> "account_representative_set", a |-> r] : r \in [wallet : StrDom, account : StrDom, representative : StrDom, work : StrDom]}
  \cup {[cmd |-> "accounts_create", a |-> r] : r \in [wallet : StrDom, count : IntDom, work : BoolDom]}
  \cup {[cmd |-> "password_change", a |-> r] : r \in [wallet : StrDom, password : StrDom]}
  \cup {[cmd |-> "password_enter", a |-> r] : r \in [wallet : StrDom, password : StrDom]}
  \cup {[cmd |-> "password_valid", a |-> r] : r \in [wallet : StrDom]}
  \cup {[cmd |-> "receive", a |-> r] : r \in [wallet : StrDom, account : StrDom, block : StrDom, work : StrDom]}
  \cup {[cmd |-> "receive_minimum", a |-> NoArgs]}
  \cup {[cmd |-> "receive_minimum_set", a |-> r] : r \in [amount : StrDom]}
  \cup {[cmd |-> "search_receivable", a |-> r] : r \in [wallet : StrDom]}
  \cup {[cmd |-> "search_receivable_all", a |-> NoArgs]}
  \cup {[cmd |-> "send", a |-> r] : r \in [wallet : StrDom, source : StrDom, destination : StrDom, amount : StrDom, _id : StrDom, work : StrDom]}
  \cup {[cmd |-> "wallet_add", a |-> r] : r \in [wallet : StrDom, key : StrDom, work : BoolDom]}
  \cup {[cmd |-> "wallet_add_watch", a |-> r] : r \in [wallet : StrDom, accounts : ListDom]}
  \cup {[cmd |-> "wallet_balances", a |-> r] : r \in [wallet : StrDom, threshold : IntDom]}
  \cup {[cmd |-> "wallet_change_seed", a |-> r] : r \in [wallet : StrDom, seed : StrDom, count : IntDom]}
  \cup {[cmd |-> "wallet_contains", a |-> r] : r \in [wallet : StrDom, account : StrDom]}
  \cup {[cmd |-> "wallet_create", a |-> r] : r \in [seed : StrDom]}
  \cup {[cmd |-> "wallet_destroy", a |-> r] : r \in [wallet : StrDom]}
  \cup {[cmd |-> "wallet_export", a |-> r] : r \in [wallet : StrDom]}
  \cup {[cmd |-> "wallet_frontiers", a |-> r] : r \in [wallet : StrDom]}
  \cup {[cmd |-> "wallet_history", a |-> r] : r \in [wallet : StrDom, modified_since : IntDom]}
  \cup {[cmd |-> "wallet_info", a |-> r] : r \in [wallet : StrDom]}
  \cup {[cmd |-> "wallet_ledger", a |-> r] : r \in [wallet : StrDom, representative : BoolDom, weight : BoolDom, receivable : BoolDom, modified_since : StrDom]}
  \cup {[cmd |-> "wallet_lock", a |-> r] : r \in [wallet : StrDom]}
  \cup {[cmd |-> "wallet_locked", a |-> r] : r \in [wallet : StrDom]}
  \cup {[cmd |-> "wallet_receivable", a |-> r] : r \in [wallet : StrDom, count : IntDom, threshold : IntDom, source : BoolDom, include_active : BoolDom, min_version : BoolDom, include_only_confirmed : BoolDom]}
  \cup {[cmd |-> "wallet_representative", a |-> r] : r \in [wallet : StrDom]}
  \cup {[cmd |-> "wallet_representative_set", a |-> r] : r \in [wallet : StrDom, representative : StrDom, update_existing_accounts : BoolDom]}
  \cup {[cmd |-> "wallet_republish", a |-> r] : r \in [wallet : StrDom, count : IntDom]}
  \cup {[cmd |-> "wallet_work_get", a |-> r] : r \in [wallet : StrDom]}
  \cup {[cmd |-> "work_get", a |-> r] : r \in [wallet : StrDom, account : StrDom]}
  \cup {[cmd |-> "work_set", a |-> r] : r \in [wallet : StrDom, account : StrDom, work : StrDom]}
  \cup {[cmd |-> "nano_to_raw", a |-> r] : r \in [amount : StrDom]}
  \cup {[cmd |-> "raw_to_nano", a |-> r] : r \in [amount : StrDom]}

Build(c) ==
  CASE c.cmd = "account_balance" -> account_balance(c.a.account, c.a.include_only_confirmed)
    [] c.cmd = "account_block_count" -> account_block_count(c.a.account)
    [] c.cmd = "account_get" -> account_get(c.a.key)
    [] c.cmd = "account_history" -> account_history(c.a.account, c.a.count, c.a.raw, c.a.head, c.a.offset, c.a.reverse, c.a.account_filter)
    [] c.cmd = "account_info" -> account_info(c.a.account, c.a.include_confirmed, c.a.representative, c.a.weight, c.a.pending)
    [] c.cmd = "account_key" -> account_key(c.a.account)
    [] c.cmd = "account_representative" -> account_representative(c.a.account)
    [] c.cmd = "account_weight" -> account_weight(c.a.account)
    [] c.cmd = "accounts_balances" -> accounts_balances(c.a.accounts, c.a.include_only_confirmed)
    [] c.cmd = "accounts_frontiers" -> accounts_frontiers(c.a.accounts)
    [] c.cmd = "accounts_receivable" -> accounts_receivable(c.a.accounts, c.a.count, c.a.threshold, c.a.source, c.a.include_active, c.a.sorting, c.a.include_only_confirmed)
    [] c.cmd = "accounts_representatives" -> accounts_representatives(c.a.accounts)
    [] c.cmd = "available_supply" -> available_supply
    [] c.cmd = "block_account" -> block_account(c.a._hash)
    [] c.cmd = "block_confirm" -> block_confirm(c.a._hash)
    [] c.cmd = "block_count" -> block_count(c.a.include_cemented)
    [] c.cmd = "block_create" -> block_create(c.a.balance, c.a.representative, c.a.previous, c.a.wallet, c.a.account, c.a.key, c.a.source, c.a.destination, c.a.link, c.a.work, c.a.version, c.a.json_block, c.a.difficulty)
    [] c.cmd = "block_hash" -> block_hash(c.a.block, c.a.json_block)
    [] c.cmd = "block_info" -> block_info(c.a._hash, c.a.json_block)
    [] c.cmd = "blocks" -> blocks(c.a.hashes, c.a.json_block)
    [] c.cmd = "blocks_info" -> blocks_info(c.a.hashes, c.a.pending, c.a.source, c.a.receive_hash, c.a.json_block, c.a.include_not_found)
    [] c.cmd = "bootstrap" -> bootstrap(c.a.address, c.a.port, c.a.bypass_frontier_confirmation, c.a._id)
    [] c.cmd = "bootstrap_any" -> bootstrap_any(c.a.force, c.a._id, c.a.account)
    [] c.cmd = "bootstrap_lazy" -> bootstrap_lazy(c.a.hash_, c.a.force, c.a._id)
    [] c.cmd = "bootstrap_status" -> bootstrap_status
    [] c.cmd = "chain" -> chain(c.a.block, c.a.count, c.a.offset, c.a.reverse)
    [] c.cmd = "confirmation_active" -> confirmation_active(c.a.announcements)
    [] c.cmd = "confirmation_height_currently_processing" -> confirmation_height_currently_processing
    [] c.cmd = "confirmation_history" -> confirmation_history(c.a._hash)
    [] c.cmd = "confirmation_info" -> confirmation_info(c.a.root, c.a.contents, c.a.representatives, c.a.json_block)
    [] c.cmd = "confirmation_quorum" -> confirmation_quorum(c.a.peer_details)
    [] c.cmd = "database_txn_tracker" -> database_txn_tracker(c.a.min_read_time, c.a.min_write_time)
    [] c.cmd = "delegators" -> delegators(c.a.account, c.a.threshold, c.a.count, c.a.start)
    [] c.cmd = "delegators_count" -> delegators_count(c.a.account)
    [] c.cmd = "deterministic_key" -> deterministic_key(c.a.seed, c.a.index)
    [] c.cmd = "election_statistics" -> election_statistics
    [] c.cmd = "epoch_upgrade" -> epoch_upgrade(c.a.epoch, c.a.key, c.a.count, c.a.threads)
    [] c.cmd = "frontier_count" -> frontier_count
    [] c.cmd = "frontiers" -> frontiers(c.a.account, c.a.count)
    [] c.cmd = "keepalive" -> keepalive(c.a.address, c.a.port)
    [] c.cmd = "key_create" -> key_create
    [] c.cmd = "key_expand" -> key_expand(c.a.key)
    [] c.cmd = "ledger" -> ledger(c.a.account, c.a.count, c.a.representative, c.a.weight, c.a.receivable, c.a.modified_since, c.a.sorting, c.a.threshold)
    [] c.cmd = "node_id" -> node_id
    [] c.cmd = "node_id_delete" -> node_id_delete
    [] c.cmd = "peers" -> peers(c.a.peer_details)
    [] c.cmd = "populate_backlog" -> populate_backlog
    [] c.cmd = "process" -> process(c.a.block, c.a.force, c.a.subtype, c.a.json_block, c.a.watch_work, c.a._async)
    [] c.cmd = "receivable" -> receivable(c.a.account, c.a.count, c.a.threshold, c.a.source, c.a.include_active, c.a.min_version, c.a.sorting, c.a.include_only_confirmed)
    [] c.cmd = "receivable_exists" -> receivable_exists(c.a._hash, c.a.include_active, c.a.include_only_confirmed)
    [] c.cmd = "representatives" -> representatives(c.a.count, c.a.sorting)
    [] c.cmd = "representatives_online" -> representatives_online(c.a.weight, c.a.accounts)
    [] c.cmd = "republish" -> republish(c.a._hash, c.a.count, c.a.sources, c.a.destinations)
    [] c.cmd = "sign" -> sign(c.a.key, c.a.wallet, c.a.account, c.a.block, c.a._hash, c.a.json_block)
    [] c.cmd = "stats" -> stats(c.a._type)
    [] c.cmd = "stats_clear" -> stats_clear
    [] c.cmd = "stop" -> stop
    [] c.cmd = "successors" -> successors(c.a.block, c.a.count, c.a.offset, c.a.reverse)
    [] c.cmd = "telemetry" -> telemetry(c.a.raw, c.a.address, c.a.port)
    [] c.cmd = "validate_account_number" -> validate_account_number(c.a.account)
    [] c.cmd = "version" -> version
    [] c.cmd = "unchecked" -> unchecked(c.a.json_block, c.a.count)
    [] c.cmd = "unchecked_clear" -> unchecked_clear
    [] c.cmd = "unchecked_get" -> unchecked_get(c.a._hash, c.a.json_block)
    [] c.cmd = "unchecked_keys" -> unchecked_keys(c.a.key, c.a.count, c.a.json_block)
    [] c.cmd = "unopened" -> unopened(c.a.account, c.a.count, c.a.threshold)
    [] c.cmd = "uptime" -> uptime
    [] c.cmd = "work_cancel" -> work_cancel(c.a._hash)
    [] c.cmd = "work_generate" -> work_generate(c.a._hash, c.a.use_peers, c.a.difficulty, c.a.multiplier, c.a.account, c.a.version, c.a.block, c.a.json_block)
    [] c.cmd = "work_peer_add" -> work_peer_add(c.a.address, c.a.port)
    [] c.cmd = "work_peers" -> work_peers
    [] c.cmd = "work_peers_clear" -> work_peers_clear
    [] c.cmd = "work_validate" -> work_validate(c.a.work, c.a._hash, c.a.difficulty, c.a.multiplier, c.a.version)
    [] c.cmd = "account_create" -> account_create(c.a.wallet, c.a.index, c.a.work)
    [] c.cmd = "account_list" -> account_list(c.a.wallet)
    [] c.cmd = "account_move" -> account_move(c.a.wallet, c.a.source, c.a.accounts)
    [] c.cmd = "account_remove" -> account_remove(c.a.wallet, c.a.account)
    [] c.cmd = "account_representative_set" -> account_representative_set(c.a.wallet, c.a.account, c.a.representative, c.a.work)
    [] c.cmd = "accounts_create" -> accounts_create(c.a.wallet, c.a.count, c.a.work)
    [] c.cmd = "password_change" -> password_change(c.a.wallet, c.a.password)
    [] c.cmd = "password_enter" -> password_enter(c.a.wallet, c.a.password)
    [] c.cmd = "password_valid" -> password_valid(c.a.wallet)
    [] c.cmd = "receive" -> receive(c.a.wallet, c.a.account, c.a.block, c.a.work)
    [] c.cmd = "receive_minimum" -> receive_minimum
    [] c.cmd = "receive_minimum_set" -> receive_minimum_set(c.a.amount)
    [] c.cmd = "search_receivable" -> search_receivable(c.a.wallet)
    [] c.cmd = "search_receivable_all" -> search_receivable_all
    [] c.cmd = "send" -> send(c.a.wallet, c.a.source, c.a.destination, c.a.amount, c.a._id, c.a.work)
    [] c.cmd = "wallet_add" -> wallet_add(c.a.wallet, c.a.key, c.a.work)
    [] c.cmd = "wallet_add_watch" -> wallet_add_watch(c.a.wallet, c.a.accounts)
    [] c.cmd = "wallet_balances" -> wallet_balances(c.a.wallet, c.a.threshold)
    [] c.cmd = "wallet_change_seed" -> wallet_change_seed(c.a.wallet, c.a.seed, c.a.count)
    [] c.cmd = "wallet_contains" -> wallet_contains(c.a.wallet, c.a.account)
    [] c.cmd = "wallet_create" -> wallet_create(c.a.seed)
    [] c.cmd = "wallet_destroy" -> wallet_destroy(c.a.wallet)
    [] c.cmd = "wallet_export" -> wallet_export(c.a.wallet)
    [] c.cmd = "wallet_frontiers" -> wallet_frontiers(c.a.wallet)
    [] c.cmd = "wallet_history" -> wallet_history(c.a.wallet, c.a.modified_since)
    [] c.cmd = "wallet_info" -> wallet_info(c.a.wallet)
    [] c.cmd = "wallet_ledger" -> wallet_ledger(c.a.wallet, c.a.representative, c.a.weight, c.a.receivable, c.a.modified_since)
    [] c.cmd = "wallet_lock" -> wallet_lock(c.a.wallet)
    [] c.cmd = "wallet_locked" -> wallet_locked(c.a.wallet)
    [] c.cmd = "wallet_receivable" -> wallet_receivable(c.a.wallet, c.a.count, c.a.threshold, c.a.source, c.a.include_active, c.a.min_version, c.a.include_only_confirmed)
    [] c.cmd = "wallet_representative" -> wallet_representative(c.a.wallet)
    [] c.cmd = "wallet_representative_set" -> wallet_representative_set(c.a.wallet, c.a.representative, c.a.update_existing_accounts)
    [] c.cmd = "wallet_republish" -> wallet_republish(c.a.wallet, c.a.count)
    [] c.cmd = "wallet_work_get" -> wallet_work_get(c.a.wallet)
    [] c.cmd = "work_get" -> work_get(c.a.wallet, c.a.account)
    [] c.cmd = "work_set" -> work_set(c.a.wallet, c.a.account, c.a.work)
    [] c.cmd = "nano_to_raw" -> nano_to_raw(c.a.amount)
    [] c.cmd = "raw_to_nano" -> raw_to_nano(c.a.amount)

(***************************************************************************)
(* The optional parameters the command methods declare, each with its      *)
(* default, read off the signatures.                                       *)
(***************************************************************************)
Opt(cmd, param, default) == [cmd |-> cmd, param |-> param, default |-> default]

OptionalParams ==
  { Opt("account_balance", "include_only_confirmed", PyBool(TRUE)),
    Opt("account_history", "count", PyInt(1)),
    Opt("account_history", "raw", PyBool(FALSE)),
    Opt("account_history", "head", PyStr("")),
    Opt("account_history", "offset", PyInt(0)),
    Opt("account_history", "reverse", PyBool(FALSE)),
    Opt("account_history", "account_filter", PyNone),
    Opt("account_info", "include_confirmed", PyBool(FALSE)),
    Opt("account_info", "representative", PyBool(FALSE)),
    Opt("account_info", "weight", PyBool(FALSE)),
    Opt("account_info", "pending", PyBool(FALSE)),
    Opt("accounts_balances", "include_only_confirmed", PyBool(TRUE)),
    Opt("accounts_receivable", "count", PyInt(1)),
    Opt("accounts_receivable", "threshold", PyStr("")),
    Opt("accounts_receivable", "source", PyBool(FALSE)),
    Opt("accounts_receivable", "include_active", PyBool(FALSE)),
    Opt("accounts_receivable", "sorting", PyBool(FALSE)),
    Opt("accounts_receivable", "include_only_confirmed", PyBool(TRUE)),
    Opt("block_count", "include_cemented", PyBool(TRUE)),
    Opt("block_create", "wallet", PyStr("")),
    Opt("block_create", "account", PyStr("")),
    Opt("block_create", "key", PyStr("")),
    Opt("block_create", "source", PyStr("")),
    Opt("block_create", "destination", PyStr("")),
    Opt("block_create", "link", PyStr("")),
    Opt("block_create", "work", PyStr("")),
    Opt("block_create", "version", PyStr("work_1")),
    Opt("block_create", "json_block", PyBool(FALSE)),
    Opt("block_create", "difficulty", PyStr("")),
    Opt("block_hash", "json_block", PyBool(FALSE)),
    Opt("block_info", "json_block", PyBool(FALSE)),
    Opt("blocks", "json_block", PyBool(FALSE)),
    Opt("blocks_info", "pending", PyBool(FALSE)),
    Opt("blocks_info", "source", PyBool(FALSE)),
    Opt("blocks_info", "receive_hash", PyBool(FALSE)),
    Opt("blocks_info", "json_block", PyBool(FALSE)),
    Opt("blocks_info", "include_not_found", PyBool(FALSE)),
    Opt("bootstrap", "bypass_frontier_confirmation", PyBool(FALSE)),
    Opt("bootstrap", "_id", PyStr("")),
    Opt("bootstrap_any", "force", PyBool(FALSE)),
    Opt("bootstrap_any", "_id", PyStr("")),
    Opt("bootstrap_any", "account", PyStr("")),
    Opt("bootstrap_lazy", "force", PyBool(FALSE)),
    Opt("bootstrap_lazy", "_id", PyStr("")),
    Opt("chain", "count", PyInt(1)),
    Opt("chain", "offset", PyInt(0)),
    Opt("chain", "reverse", PyBool(FALSE)),
    Opt("confirmation_active", "announcements", PyInt(0)),
    Opt("confirmation_history", "_hash", PyStr("")),
    Opt("confirmation_info", "contents", PyBool(TRUE)),
    Opt("confirmation_info", "representatives", PyBool(FALSE)),
    Opt("confirmation_info", "json_block", PyBool(FALSE)),
    Opt("confirmation_quorum", "peer_details", PyBool(FALSE)),
    Opt("delegators", "threshold", PyInt(0)),
    Opt("delegators", "count", PyInt(0)),
    Opt("delegators", "start", PyStr("")),
    Opt("epoch_upgrade", "count", PyInt(0)),
    Opt("epoch_upgrade", "threads", PyInt(0)),
    Opt("frontiers", "count", PyInt(1)),
    Opt("ledger", "count", PyInt(1)),
    Opt("ledger", "representative", PyBool(FALSE)),
    Opt("ledger", "weight", PyBool(FALSE)),
    Opt("ledger", "receivable", PyBool(FALSE)),
    Opt("ledger", "modified_since", PyInt(0)),
    Opt("ledger", "sorting", PyBool(FALSE)),
    Opt("ledger", "threshold", PyInt(0)),
    Opt("peers", "peer_details", PyBool(FALSE)),
    Opt("process", "force", PyBool(FALSE)),
    Opt("process", "subtype", PyStr("")),
    Opt("process", "json_block", PyBool(FALSE)),
    Opt("process", "watch_work", PyBool(TRUE)),
    Opt("process", "_async", PyBool(FALSE)),
    Opt("receivable", "count", PyInt(0)),
    Opt("receivable", "threshold", PyInt(0)),
    Opt("receivable", "source", PyBool(FALSE)),
    Opt("receivable", "include_active", PyBool(FALSE)),
    Opt("receivable", "min_version", PyBool(FALSE)),
    Opt("receivable", "sorting", PyBool(FALSE)),
    Opt("receivable", "include_only_confirmed", PyBool(TRUE)),
    Opt("receivable_exists", "include_active", PyBool(FALSE)),
    Opt("receivable_exists", "include_only_confirmed", PyBool(TRUE)),
    Opt("representatives", "count", PyInt(1)),
    Opt("representatives", "sorting", PyBool(FALSE)),
    Opt("representatives_online", "weight", PyBool(FALSE)),
    Opt("representatives_online", "accounts", PyNone),
    Opt("republish", "count", PyInt(1)),
    Opt("republish", "sources", PyInt(0)),
    Opt("republish", "destinations", PyInt(0)),
    Opt("sign", "key", PyStr("")),
    Opt("sign", "wallet", PyStr("")),
    Opt("sign", "account", PyStr("")),
    Opt("sign", "block", PyStr("")),
    Opt("sign", "_hash", PyStr("")),
    Opt("sign", "json_block", PyBool(FALSE)),
    Opt("successors", "count", PyInt(1)),
    Opt("successors", "offset", PyInt(0)),
    Opt("successors", "reverse", PyBool(FALSE)),
    Opt("telemetry", "raw", PyBool(FALSE)),
    Opt("telemetry", "address", PyInt(0)),
    Opt("telemetry", "port", PyInt(7075)),
    Opt("unchecked", "json_block", PyBool(FALSE)),
    Opt("unchecked", "count", PyInt(1)),
    Opt("unchecked_get", "json_block", PyBool(FALSE)),
    Opt("unchecked_keys", "count", PyInt(1)),
    Opt("unchecked_keys", "json_block", PyBool(FALSE)),
    Opt("unopened", "account", PyStr("")),
    Opt("unopened", "count", PyInt(1)),
    Opt("unopened", "threshold", PyInt(0)),
    Opt("work_generate", "use_peers", PyBool(FALSE)),
    Opt("work_generate", "difficulty", PyStr("")),
    Opt("work_generate", "multiplier", PyInt(0)),
    Opt("work_generate", "account", PyStr("")),
    Opt("work_generate", "version", PyStr("work_1")),
    Opt("work_generate", "block", PyStr("")),
    Opt("work_generate", "json_block", PyBool(FALSE)),
    Opt("work_validate", "difficulty", PyStr("")),
    Opt("work_validate", "multiplier", PyInt(0)),
    Opt("work_validate", "version", PyStr("work_1")),
    Opt("account_create", "index", PyInt(0)),
    Opt("account_create", "work", PyBool(TRUE)),
    Opt("account_representative_set", "work", PyStr("")),
    Opt("accounts_create", "count", PyInt(1)),
    Opt("accounts_create", "work", PyBool(TRUE)),
    Opt("receive", "work", PyStr("")),
    Opt("send", "_id", PyStr("")),
    Opt("send", "work", PyStr("")),
    Opt("wallet_add", "work", PyBool(FALSE)),
    Opt("wallet_balances", "threshold", PyInt(0)),
    Opt("wallet_change_seed", "count", PyInt(0)),
    Opt("wallet_create", "seed", PyStr("")),
    Opt("wallet_history", "modified_since", PyInt(0)),
    Opt("wallet_ledger", "representative", PyBool(FALSE)),
    Opt("wallet_ledger", "weight", PyBool(FALSE)),
    Opt("wallet_ledger", "receivable", PyBool(FALSE)),
    Opt("wallet_ledger", "modified_since", PyStr("")),
    Opt("wallet_receivable", "count", PyInt(1)),
    Opt("wallet_receivable", "threshold", PyInt(0)),
    Opt("wallet_receivable", "source", PyBool(FALSE)),
    Opt("wallet_receivable", "include_active", PyBool(FALSE)),
    Opt("wallet_receivable", "min_version", PyBool(FALSE)),
    Opt("wallet_receivable", "include_only_confirmed", PyBool(TRUE)),
    Opt("wallet_representative_set", "update_existing_accounts", PyBool(FALSE)),
    Opt("wallet_republish", "count", PyInt(1)) }

\* The required parameters of every command method (those declared without a
\* default), in the order of the signature.
RequiredParams(cmd) ==
  CASE cmd = "account_balance" -> <<"account">>
    [] cmd = "account_block_count" -> <<"account">>
    [] cmd = "account_get" -> <<"key">>
    [] cmd = "account_history" -> <<"account">>
    [] cmd = "account_info" -> <<"account">>
    [] cmd = "account_key" -> <<"account">>
    [] cmd = "account_representative" -> <<"account">>
    [] cmd = "account_weight" -> <<"account">>
    [] cmd = "accounts_balances" -> <<"accounts">>
    [] cmd = "accounts_frontiers" -> <<"accounts">>
    [] cmd = "accounts_receivable" -> <<"accounts">>
    [] cmd = "accounts_representatives" -> <<"accounts">>
    [] cmd = "block_account" -> <<"_hash">>
    [] cmd = "block_confirm" -> <<"_hash">>
    [] cmd = "block_create" -> <<"balance", "representative", "previous">>
    [] cmd = "block_hash" -> <<"block">>
    [] cmd = "block_info" -> <<"_hash">>
    [] cmd = "blocks" -> <<"hashes">>
    [] cmd = "blocks_info" -> <<"hashes">>
    [] cmd = "bootstrap" -> <<"address", "port">>
    [] cmd = "bootstrap_lazy" -> <<"hash_">>
    [] cmd = "chain" -> <<"block">>
    [] cmd = "confirmation_info" -> <<"root">>
    [] cmd = "database_txn_tracker" -> <<"min_read_time", "min_write_time">>
    [] cmd = "delegators" -> <<"account">>
    [] cmd = "delegators_count" -> <<"account">>
    [] cmd = "deterministic_key" -> <<"seed", "index">>
    [] cmd = "epoch_upgrade" -> <<"epoch", "key">>
    [] cmd = "frontiers" -> <<"account">>
    [] cmd = "keepalive" -> <<"address", "port">>
    [] cmd = "key_expand" -> <<"key">>
    [] cmd = "ledger" -> <<"account">>
    [] cmd = "process" -> <<"block">>
    [] cmd = "receivable" -> <<"account">>
    [] cmd = "receivable_exists" -> <<"_hash">>
    [] cmd = "republish" -> <<"_hash">>
    [] cmd = "stats" -> <<"_type">>
    [] cmd = "successors" -> <<"block">>
    [] cmd = "validate_account_number" -> <<"account">>
    [] cmd = "unchecked_get" -> <<"_hash">>
    [] cmd = "unchecked_keys" -> <<"key">>
    [] cmd = "work_cancel" -> <<"_hash">>
    [] cmd = "work_generate" -> <<"_hash">>
    [] cmd = "work_peer_add" -> <<"address", "port">>
    [] cmd = "work_validate" -> <<"work", "_hash">>
    [] cmd = "account_create" -> <<"wallet">>
    [] cmd = "account_list" -> <<"wallet">>
    [] cmd = "account_move" -> <<"wallet", "source", "accounts">>
    [] cmd = "account_remove" -> <<"wallet", "account">>
    [] cmd = "account_representative_set" -> <<"wallet", "account", "representative">>
    [] cmd = "accounts_create" -> <<"wallet">>
    [] cmd = "password_change" -> <<"wallet", "password">>
    [] cmd = "password_enter" -> <<"wallet", "password">>
    [] cmd = "password_valid" -> <<"wallet">>
    [] cmd = "receive" -> <<"wallet", "account", "block">>
    [] cmd = "receive_minimum_set" -> <<"amount">>
    [] cmd = "search_receivable" -> <<"wallet">>
    [] cmd = "send" -> <<"wallet", "source", "destination", "amount">>
    [] cmd = "wallet_add" -> <<"wallet", "key">>
    [] cmd = "wallet_add_watch" -> <<"wallet", "accounts">>
    [] cmd = "wallet_balances" -> <<"wallet">>
    [] cmd = "wallet_change_seed" -> <<"wallet", "seed">>
    [] cmd = "wallet_contains" -> <<"wallet", "account">>
    [] cmd = "wallet_destroy" -> <<"wallet">>
    [] cmd = "wallet_export" -> <<"wallet">>
    [] cmd = "wallet_frontiers" -> <<"wallet">>
    [] cmd = "wallet_history" -> <<"wallet">>
    [] cmd = "wallet_info" -> <<"wallet">>
    [] cmd = "wallet_ledger" -> <<"wallet">>
    [] cmd = "wallet_lock" -> <<"wallet">>
    [] cmd = "wallet_locked" -> <<"wallet">>
    [] cmd = "wallet_receivable" -> <<"wallet">>
    [] cmd = "wallet_representative" -> <<"wallet">>
    [] cmd = "wallet_representative_set" -> <<"wallet", "representative">>
    [] cmd = "wallet_republish" -> <<"wallet">>
    [] cmd = "wallet_work_get" -> <<"wallet">>
    [] cmd = "work_get" -> <<"wallet", "account">>
    [] cmd = "work_set" -> <<"wallet", "account", "work">>
    [] cmd = "nano_to_raw" -> <<"amount">>
    [] cmd = "raw_to_nano" -> <<"amount">>
    [] OTHER -> <<>>

(***************************************************************************)
(* The node's side of an exchange.  What the node answers is its own       *)
(* business: a result, a node-reported error (a well-formed reply with an  *)
(* error field), or text that is no JSON.                                  *)
(***************************************************************************)
OkReply == PyDict(<<[k |-> "balance", v |-> PyStr("1")]>>)
ErrorReply == PyDict(<<[k |-> "error", v |-> PyStr("Account not found")]>>)
ReplyMaps == {OkReply, ErrorReply}
Malformed == "<html>"
ReplyTexts == {json_dumps(m) : m \in ReplyMaps} \cup {Malformed}
\* The statuses a node (or a proxy in front of it) answers a request with.
StatusDom == {200, 404, 503}

\* Whether json.loads(text) / response.json() decodes text.
Decodable(text) == \E m \in ReplyMaps : json_dumps(m) = text

\* json.loads(text), for text that decodes: the mapping written as text.
json_loads(text) == CHOOSE m \in ReplyMaps : json_dumps(m) = text

\* How an HTTP exchange ends: a response, or none (the node is unreachable).
Responses ==
  {[answered |-> FALSE, status |-> 0, text |-> ""]}
  \cup [answered : {TRUE}, status : StatusDom, text : ReplyTexts]

\* Whether response.raise_for_status() raises.
raise_for_status(status) == 400 <= status /\ status < 600

(***************************************************************************)
(* Connection strings, character by character: __init__ slices them.       *)
(***************************************************************************)
HttpPrefix == <<"h", "t", "t", "p", ":", "/", "/">>
HttpsPrefix == <<"h", "t", "t", "p", "s", ":", "/", "/">>
WsPrefix == <<"w", "s", ":", "/", "/">>
WssPrefix == <<"w", "s", "s", ":", "/", "/">>
Host == <<"n">>
UrlDom ==
  { HttpPrefix \o Host, HttpsPrefix \o Host, WsPrefix \o Host, WssPrefix \o Host,
    <<"f", "t", "p", ":", "/", "/">> \o Host,
    <<"h", "t", "t", "p", ":", "/">> \o Host,
    <<"H", "T", "T", "P", ":", "/", "/">> \o Host,
    <<"w", "s", "s", ":">>,
    <<>> }
\* headers: dict[str, str] | None
HeadersDom == {PyNone, PyDict(<<[k |-> "Authorization", v |-> PyStr("t")]>>)}

\* url[:n]
Slice(s, n) == SubSeq(s, 1, IF Len(s) < n THEN Len(s) ELSE n)

RECURSIVE Text(_)
\* The string of a sequence of characters.
Text(s) == IF s = <<>> THEN "" ELSE Head(s) \o Text(Tail(s))

(***************************************************************************)
(* State.                                                                  *)
(***************************************************************************)
VARIABLES
  call,      \* SpecBuild: the command method called and its arguments
  phase,     \* SpecBuild: "input", then "built" when data is what it built
  data,      \* SpecBuild: the dict the method hands to self._post
  ctor,      \* the arguments of RPC(url, headers, tor)
  self,      \* the client: state, __mode, __url, __headers, http_api, wss_api
  sock,      \* the websocket connection and the node behind it
  http,      \* the HTTP exchange each caller has in flight
  pc,        \* where each caller is in its call
  cur,       \* the number of the call each caller is in
  ret,       \* how each caller's last call ended
  ncalls,    \* calls started
  ndisc      \* disconnect() calls made

buildVars == <<call, phase, data>>
clientVars == <<ctor, self, sock, http, pc, cur, ret, ncalls, ndisc>>
vars == <<call, phase, data, ctor, self, sock, http, pc, cur, ret, ncalls, ndisc>>

\* The threads that share the client.
Callers == {"c1", "c2"}

\* The commands the callers issue in Spec and SpecSeq.
TransportCalls ==
  { [cmd |-> "account_balance",
     a |-> [account |-> PyStr("a"), include_only_confirmed |-> PyBool(FALSE)]],
    [cmd |-> "block_count", a |-> [include_cemented |-> PyBool(TRUE)]] }

NoCall == [cmd |-> "none", a |-> NoArgs]
Unset == [unset |-> "unset"]
NoSession == [session |-> "none"]
NoSocket == [socket |-> "none"]
NoProxies == <<>>
\* "socks5h://localhost:9050" for http and for https
TorProxies ==
  <<[k |-> "http", v |-> "socks5h://localhost:9050"],
    [k |-> "https", v |-> "socks5h://localhost:9050"]>>
\* http_proxy_host="localhost", http_proxy_port=9050, proxy_type="socks5h"
TorSocketProxy == [host |-> "localhost", port |-> 9050, type |-> "socks5h"]
NoSocketProxy == [host |-> "", port |-> 0, type |-> ""]

NoExchange == [id |-> 0, method |-> "", url |-> <<>>, body |-> "", headers |-> Unset,
               proxies |-> NoProxies]
NoResult == [kind |-> "none", value |-> Unset, exc |-> "", id |-> 0, re |-> 0,
             text |-> "", status |-> 0, posts |-> 0, writes |-> 0, reads |-> 0]
NewClient == [state |-> "new", mode |-> "unset", url |-> <<>>, headers |-> Unset,
              http_api |-> NoSession, wss_api |-> NoSocket, exc |-> "", msg |-> ""]
NoConnection == [attempts |-> 0, opened |-> 0, connected |-> FALSE,
                 proxy |-> NoSocketProxy, url |-> <<>>, tx |-> <<>>, rx |-> <<>>,
                 written |-> 0, read |-> 0]

ClientInit ==
  /\ self = NewClient
  /\ sock = NoConnection
  /\ http = [c \in Callers |-> NoExchange]
  /\ pc = [c \in Callers |-> "idle"]
  /\ cur = [c \in Callers |-> [id |-> 0, posts |-> 0, writes |-> 0, reads |-> 0]]
  /\ ret = [c \in Callers |-> NoResult]
  /\ ncalls = 0
  /\ ndisc = 0

(***************************************************************************)
(* SpecBuild: the command methods as pure functions.                       *)
(***************************************************************************)
InitBuild ==
  /\ call \in Calls
  /\ phase = "input"
  /\ data = EmptyDict
  /\ ctor = [url |-> HttpPrefix \o Host, headers |-> PyNone, tor |-> FALSE]
  /\ ClientInit

\* The body of the command method, up to its call of self._post(data).
BuildStep ==
  /\ phase = "input"
  /\ data' = Build(call)
  /\ phase' = "built"
  /\ UNCHANGED call
  /\ UNCHANGED clientVars

NextBuild == BuildStep

SpecBuild == InitBuild /\ [][NextBuild]_vars

(***************************************************************************)
(* RPC.__init__                                                            *)
(***************************************************************************)
\* websocket.create_connection(url, ...) either connects or raises.
RPC_init_websockets(url, headers, tor, connects) ==
  LET proxy == IF tor THEN TorSocketProxy ELSE NoSocketProxy
  IN  IF connects
      THEN /\ sock' = [sock EXCEPT !.attempts = @ + 1, !.opened = @ + 1,
                                   !.connected = TRUE, !.proxy = proxy, !.url = url]
           /\ self' = [self EXCEPT !.state = "ok", !.mode = "websockets",
                                   !.wss_api = [socket |-> "open"],
                                   !.url = url, !.headers = headers]
      ELSE /\ sock' = [sock EXCEPT !.attempts = @ + 1]
           /\ self' = [self EXCEPT !.state = "failed", !.exc = "ConnectionError"]

RPC_init_requests(url, headers, tor) ==
  /\ self' = [self EXCEPT !.state = "ok", !.mode = "requests",
                          !.http_api = [proxies |-> IF tor THEN TorProxies ELSE NoProxies],
                          !.url = url, !.headers = headers]
  /\ UNCHANGED sock

\* __init__ slicing url[:7] for "https://" as well.
RPC_init_short_slice(url, headers, tor, connects) ==
  /\ self.state = "new"
  /\ IF Slice(url, 7) = HttpPrefix \/ Slice(url, 7) = HttpsPrefix
     THEN RPC_init_requests(url, headers, tor)
     ELSE IF Slice(url, 5) = WsPrefix \/ Slice(url, 6) = WssPrefix
          THEN RPC_init_websockets(url, headers, tor, connects)
          ELSE /\ self' = [self EXCEPT !.state = "failed", !.exc = "AttributeError",
                                       !.msg = "Invalid url: " \o Text(url)]
               /\ UNCHANGED sock
  /\ UNCHANGED <<http, pc, cur, ret, ncalls, ndisc>>

\* __init__ falling back to requests mode instead of raising.
RPC_init_fallback(url, headers, tor, connects) ==
  /\ self.state = "new"
  /\ IF Slice(url, 5) = WsPrefix \/ Slice(url, 6) = WssPrefix
     THEN RPC_init_websockets(url, headers, tor, connects)
     ELSE RPC_init_requests(url, headers, tor)
  /\ UNCHANGED <<http, pc, cur, ret, ncalls, ndisc>>

RPC_init(url, headers, tor, connects) ==
  /\ self.state = "new"
  /\ IF Slice(url, 7) = HttpPrefix \/ Slice(url, 8) = HttpsPrefix
     THEN RPC_init_requests(url, headers, tor)
     ELSE IF Slice(url, 5) = WsPrefix \/ Slice(url, 6) = WssPrefix
          THEN RPC_init_websockets(url, headers, tor, connects)
          ELSE /\ self' = [self EXCEPT !.state = "failed", !.exc = "AttributeError",
                                       !.msg = "Invalid url: " \o Text(url)]
               /\ UNCHANGED sock
  /\ UNCHANGED <<http, pc, cur, ret, ncalls, ndisc>>

\* rpc = RPC(url, headers, tor)
Construct ==
  /\ \E connects \in BOOLEAN : RPC_init(ctor.url, ctor.headers, ctor.tor, connects)
  /\ UNCHANGED <<ctor, buildVars>>

(***************************************************************************)
(* RPC._get, RPC._post and the command methods.  A call that blocks is two *)
(* steps of its caller: the request goes out, the reply comes in.          *)
(***************************************************************************)
\* A client that lets one call at a time use the connection.
CanStart_locked(c) ==
  /\ self.state = "ok"
  /\ \A d \in Callers : pc[d] = "idle"

\* A caller may start a call on a constructed client.
CanStart(c) ==
  /\ self.state = "ok"
  /\ pc[c] = "idle"

\* How a call of caller c ends: the method returns value, or raises exc.
Finish(c, kind, value, exc, re, text, status, counts) ==
  /\ ret' = [ret EXCEPT ![c] =
               [kind |-> kind, value |-> value, exc |-> exc, id |-> counts.id, re |-> re,
                text |-> text, status |-> status, posts |-> counts.posts,
                writes |-> counts.writes, reads |-> counts.reads]]
  /\ pc' = [pc EXCEPT ![c] = "idle"]

\* The exchange kept in one attribute of the client that all callers share.
http_request_shared(c, method, body) ==
  /\ http' = [d \in Callers |->
                IF d = c \/ pc[d] = "http_sent"
                THEN [id |-> ncalls + 1, method |-> method, url |-> self.url, body |-> body,
                      headers |-> self.headers, proxies |-> self.http_api.proxies]
                ELSE http[d]]
  /\ pc' = [pc EXCEPT ![c] = "http_sent"]
  /\ cur' = [cur EXCEPT ![c] = [id |-> ncalls + 1, posts |-> 1, writes |-> 0, reads |-> 0]]
  /\ UNCHANGED <<sock, ret>>

\* self.http_api.post(self.__url, json=data, headers=self.__headers), and
\* self.http_api.get(self.__url, headers=self.__headers): the request goes out.
http_request(c, method, body) ==
  /\ http' = [http EXCEPT ![c] =
                [id |-> ncalls + 1, method |-> method, url |-> self.url, body |-> body,
                 headers |-> self.headers, proxies |-> self.http_api.proxies]]
  /\ pc' = [pc EXCEPT ![c] = "http_sent"]
  /\ cur' = [cur EXCEPT ![c] = [id |-> ncalls + 1, posts |-> 1, writes |-> 0, reads |-> 0]]
  /\ UNCHANGED <<sock, ret>>

\* _post in websockets mode opening a new connection when the old one is closed.
wss_send_reconnect(c, text) ==
  LET counts == [id |-> ncalls + 1, posts |-> 0, writes |-> 1, reads |-> 0]
      msg == [text |-> text, id |-> ncalls + 1]
      conn == IF sock.connected
              THEN sock
              ELSE [sock EXCEPT !.attempts = @ + 1, !.opened = @ + 1, !.connected = TRUE]
  IN  /\ sock' = [conn EXCEPT !.tx = Append(@, msg), !.written = @ + 1]
      /\ pc' = [pc EXCEPT ![c] = "ws_sent"]
      /\ cur' = [cur EXCEPT ![c] = counts]
      /\ UNCHANGED <<http, ret>>

\* _post in websockets mode sending the payload a second time.
wss_send_twice(c, text) ==
  LET counts == [id |-> ncalls + 1, posts |-> 0, writes |-> 0, reads |-> 0]
      msg == [text |-> text, id |-> ncalls + 1]
  IN  IF sock.connected
      THEN /\ sock' = [sock EXCEPT !.tx = Append(Append(@, msg), msg),
                                   !.written = @ + 2]
           /\ pc' = [pc EXCEPT ![c] = "ws_sent"]
           /\ cur' = [cur EXCEPT ![c] = [counts EXCEPT !.writes = 2]]
           /\ UNCHANGED <<http, ret>>
      ELSE /\ Finish(c, "raise", Unset, "WebSocketConnectionClosedException", 0, "", 0, counts)
           /\ cur' = [cur EXCEPT ![c] = counts]
           /\ UNCHANGED <<sock, http>>

\* self.wss_api.send(json.dumps(data)): written to the connection, or the
\* connection is closed and send raises.
wss_send(c, text) ==
  LET counts == [id |-> ncalls + 1, posts |-> 0, writes |-> 0, reads |-> 0]
  IN  IF sock.connected
      THEN /\ sock' = [sock EXCEPT !.tx = Append(@, [text |-> text, id |-> ncalls + 1]),
                                   !.written = @ + 1]
           /\ pc' = [pc EXCEPT ![c] = "ws_sent"]
           /\ cur' = [cur EXCEPT ![c] = [counts EXCEPT !.writes = 1]]
           /\ UNCHANGED <<http, ret>>
      ELSE /\ Finish(c, "raise", Unset, "WebSocketConnectionClosedException", 0, "", 0, counts)
           /\ cur' = [cur EXCEPT ![c] = counts]
           /\ UNCHANGED <<sock, http>>

\* _post quoting the strings of the body with single quotes in requests mode.
_post_single_quoted(c, d) ==
  IF self.mode = "requests"
  THEN http_request(c, "POST", dumps(PyDict(d), "'", FALSE))
  ELSE IF self.mode = "websockets"
       THEN wss_send(c, json_dumps(PyDict(d)))
       ELSE /\ Finish(c, "return", PyNone, "", 0, "", 0,
                      [id |-> ncalls + 1, posts |-> 0, writes |-> 0, reads |-> 0])
            /\ UNCHANGED <<sock, http, cur>>

\* _post(data), up to the point where it waits for the reply.
_post(c, d) ==
  IF self.mode = "requests"
  THEN http_request(c, "POST", json_dumps(PyDict(d)))
  ELSE IF self.mode = "websockets"
       THEN wss_send(c, json_dumps(PyDict(d)))
       ELSE /\ Finish(c, "return", PyNone, "", 0, "", 0,
                      [id |-> ncalls + 1, posts |-> 0, writes |-> 0, reads |-> 0])
            /\ UNCHANGED <<sock, http, cur>>

\* A command method: data = {...}; return self._post(data)
Command(c, cmd) ==
  /\ CanStart(c)
  /\ _post(c, Build(cmd))
  /\ ncalls' = ncalls + 1
  /\ UNCHANGED <<self, ndisc, ctor, buildVars>>

\* _get(), up to the point where it waits for the reply.
_get(c) ==
  /\ CanStart(c)
  /\ IF self.mode = "requests"
     THEN http_request(c, "GET", "")
     ELSE /\ Finish(c, "return", PyNone, "", 0, "", 0,
                    [id |-> ncalls + 1, posts |-> 0, writes |-> 0, reads |-> 0])
          /\ cur' = [cur EXCEPT ![c] = [id |-> ncalls + 1, posts |-> 0, writes |-> 0,
                                        reads |-> 0]]
          /\ UNCHANGED <<sock, http>>
  /\ ncalls' = ncalls + 1
  /\ UNCHANGED <<self, ndisc, ctor, buildVars>>

\* _post in requests mode without the call of raise_for_status().
http_response_unchecked(c, response) ==
  /\ pc[c] = "http_sent"
  /\ LET answered == response.answered
         status == response.status
         text == response.text
     IN
     IF ~answered
     THEN Finish(c, "raise", Unset, "ConnectionError", 0, "", 0, cur[c])
     ELSE IF Decodable(text)
          THEN Finish(c, "return", json_loads(text), "", http[c].id, text, status, cur[c])
          ELSE Finish(c, "raise", Unset, "JSONDecodeError", http[c].id, text, status,
                      cur[c])
  /\ http' = [http EXCEPT ![c] = NoExchange]
  /\ UNCHANGED <<self, sock, cur, ncalls, ndisc, ctor, buildVars>>

\* The rest of _get and _post in requests mode: the exchange ends with a
\* response (http_response.raise_for_status(); return http_response.json()) or
\* with no response at all (requests raises ConnectionError).
http_response(c, response) ==
  /\ pc[c] = "http_sent"
  /\ LET answered == response.answered
         status == response.status
         text == response.text
     IN
     IF ~answered
     THEN Finish(c, "raise", Unset, "ConnectionError", 0, "", 0, cur[c])
     ELSE IF raise_for_status(status)
          THEN Finish(c, "raise", Unset, "HTTPError", http[c].id, text, status, cur[c])
          ELSE IF Decodable(text)
               THEN Finish(c, "return", json_loads(text), "", http[c].id, text, status, cur[c])
               ELSE Finish(c, "raise", Unset, "JSONDecodeError", http[c].id, text, status,
                           cur[c])
  /\ http' = [http EXCEPT ![c] = NoExchange]
  /\ UNCHANGED <<self, sock, cur, ncalls, ndisc, ctor, buildVars>>

\* _post in websockets mode raising on a reply that carries an error field.
wss_recv_raise_on_error(c) ==
  /\ pc[c] = "ws_sent"
  /\ LET counts == [cur[c] EXCEPT !.reads = 1]
     IN  IF ~sock.connected
         THEN /\ Finish(c, "raise", Unset, "WebSocketConnectionClosedException", 0, "", 0,
                        counts)
              /\ UNCHANGED sock
         ELSE /\ sock.rx # <<>>
              /\ LET msg == Head(sock.rx)
                 IN  /\ sock' = [sock EXCEPT !.rx = Tail(@), !.read = @ + 1]
                     /\ IF Decodable(msg.text) /\ ~HasKey(ValOf(json_loads(msg.text)), "error")
                        THEN Finish(c, "return", json_loads(msg.text), "", msg.re,
                                    msg.text, 0, counts)
                        ELSE Finish(c, "raise", Unset, "JSONDecodeError", msg.re, msg.text,
                                    0, counts)
  /\ cur' = [cur EXCEPT ![c].reads = 1]
  /\ UNCHANGED <<self, http, ncalls, ndisc, ctor, buildVars>>

\* The rest of _post in websockets mode: return json.loads(self.wss_api.recv()).
\* recv takes the next message of the connection, whoever it answers; it
\* blocks while there is none, and raises on a closed connection.
wss_recv(c) ==
  /\ pc[c] = "ws_sent"
  /\ LET counts == [cur[c] EXCEPT !.reads = 1]
     IN  IF ~sock.connected
         THEN /\ Finish(c, "raise", Unset, "WebSocketConnectionClosedException", 0, "", 0,
                        counts)
              /\ UNCHANGED sock
         ELSE /\ sock.rx # <<>>
              /\ LET msg == Head(sock.rx)
                 IN  /\ sock' = [sock EXCEPT !.rx = Tail(@), !.read = @ + 1]
                     /\ IF Decodable(msg.text)
                        THEN Finish(c, "return", json_loads(msg.text), "", msg.re,
                                    msg.text, 0, counts)
                        ELSE Finish(c, "raise", Unset, "JSONDecodeError", msg.re, msg.text,
                                    0, counts)
  /\ cur' = [cur EXCEPT ![c].reads = 1]
  /\ UNCHANGED <<self, http, ncalls, ndisc, ctor, buildVars>>

\* _post closing the connection when its read gives up.
wss_recv_timeout_close(c) ==
  /\ pc[c] = "ws_sent"
  /\ sock.connected
  /\ sock.rx = <<>>
  /\ Finish(c, "raise", Unset, "WebSocketTimeoutException", 0, "", 0,
            [cur[c] EXCEPT !.reads = 1])
  /\ cur' = [cur EXCEPT ![c].reads = 1]
  /\ sock' = [sock EXCEPT !.connected = FALSE, !.tx = <<>>, !.rx = <<>>]
  /\ UNCHANGED <<self, http, ncalls, ndisc, ctor, buildVars>>

\* recv gives up waiting (a socket timeout set below the client, or the
\* caller interrupted): it raises, and the connection stays as it is.
wss_recv_timeout(c) ==
  /\ pc[c] = "ws_sent"
  /\ sock.connected
  /\ sock.rx = <<>>
  /\ Finish(c, "raise", Unset, "WebSocketTimeoutException", 0, "", 0,
            [cur[c] EXCEPT !.reads = 1])
  /\ cur' = [cur EXCEPT ![c].reads = 1]
  /\ UNCHANGED <<self, sock, http, ncalls, ndisc, ctor, buildVars>>

\* The node answers the oldest request on the connection, once.
NodeAnswer(text) ==
  /\ sock.connected
  /\ sock.tx # <<>>
  /\ sock' = [sock EXCEPT !.tx = Tail(@),
                          !.rx = Append(@, [text |-> text, re |-> Head(sock.tx).id])]
  /\ UNCHANGED <<self, http, pc, cur, ret, ncalls, ndisc, ctor, buildVars>>

(***************************************************************************)
(* RPC.disconnect                                                          *)
(***************************************************************************)
\* WebSocket.close(): an open connection is shut down, and what was in
\* flight on it is gone; a closed one is left alone.
wss_close(s) ==
  IF s.connected THEN [s EXCEPT !.connected = FALSE, !.tx = <<>>, !.rx = <<>>] ELSE s

\* disconnect marking the client as closed by clearing its mode.
disconnect_clear_mode ==
  /\ self.state = "ok"
  /\ ndisc < MaxDisconnects
  /\ sock' = IF self.mode = "websockets" THEN wss_close(sock) ELSE sock
  /\ self' = IF self.mode = "websockets" THEN [self EXCEPT !.mode = "unset"] ELSE self
  /\ ndisc' = ndisc + 1
  /\ UNCHANGED <<http, pc, cur, ret, ncalls, ctor, buildVars>>

\* disconnect forgetting the socket once it has closed it.
disconnect_forget ==
  /\ self.state = "ok"
  /\ ndisc < MaxDisconnects
  /\ sock' = IF self.mode = "websockets" THEN wss_close(sock) ELSE sock
  /\ self' = IF self.mode = "websockets" THEN [self EXCEPT !.wss_api = NoSocket] ELSE self
  /\ ndisc' = ndisc + 1
  /\ UNCHANGED <<http, pc, cur, ret, ncalls, ctor, buildVars>>

disconnect ==
  /\ self.state = "ok"
  /\ ndisc < MaxDisconnects
  /\ sock' = IF self.mode = "websockets" THEN wss_close(sock) ELSE sock
  /\ ndisc' = ndisc + 1
  /\ UNCHANGED <<self, http, pc, cur, ret, ncalls, ctor, buildVars>>

(***************************************************************************)
(* Spec: one client shared by the callers, every interleaving.             *)
(***************************************************************************)
Init ==
  /\ call = NoCall
  /\ phase = "transport"
  /\ data = EmptyDict
  /\ ctor \in [url : UrlDom, headers : HeadersDom, tor : BOOLEAN]
  /\ ClientInit

Next ==
  \/ Construct
  \/ \E c \in Callers, cmd \in TransportCalls : ncalls < MaxCalls /\ Command(c, cmd)
  \/ \E c \in Callers : ncalls < MaxCalls /\ _get(c)
  \/ \E c \in Callers, response \in Responses : http_response(c, response)
  \/ \E c \in Callers : wss_recv(c)
  \/ \E c \in Callers : wss_recv_timeout(c)
  \/ \E text \in ReplyTexts : NodeAnswer(text)
  \/ disconnect

Spec == Init /\ [][Next]_vars

(***************************************************************************)
(* SpecSeq: the callers use the client strictly one after another, and a   *)
(* read blocks until a message arrives (the client sets no timeout).       *)
(***************************************************************************)
AllIdle == \A c \in Callers : pc[c] = "idle"

NextSeq ==
  \/ Construct
  \/ \E c \in Callers, cmd \in TransportCalls :
       AllIdle /\ ncalls < MaxSeqCalls /\ Command(c, cmd)
  \/ \E c \in Callers : AllIdle /\ ncalls < MaxSeqCalls /\ _get(c)
  \/ \E c \in Callers, response \in Responses : http_response(c, response)
  \/ \E c \in Callers : wss_recv(c)
  \/ \E text \in ReplyTexts : NodeAnswer(text)
  \/ AllIdle /\ disconnect

SpecSeq == Init /\ [][NextSeq]_vars

(***************************************************************************)
(* Properties of the payload builders (checked under SpecBuild).           *)
(***************************************************************************)
Built == phase = "built"

(* The protocol field name of a parameter: the Python names that would     *)
(* shadow a builtin or a keyword carry an underscore the wire name lacks.  *)
FieldOf(param) ==
  CASE param = "_hash" -> "hash"
    [] param = "hash_" -> "hash"
    [] param = "_id" -> "id"
    [] param = "_async" -> "async"
    [] param = "_type" -> "type"
    [] OTHER -> param

Falsy == {PyBool(FALSE), PyInt(0), PyStr("")}

WorkCommands == {"block_create", "work_generate", "work_validate"}

(* The optional parameters whose declared default is false, 0 or "",       *)
(* leaving out difficulty, the low-precedence member of the work groups.   *)
FalsyDefault ==
  {f \in OptionalParams :
     f.default \in Falsy /\ ~(f.cmd \in WorkCommands /\ f.param = "difficulty")}

(* The fields the claim lists as omit-if-default.                          *)
C1_Claimed ==
  FalsyDefault
    \cup {f \in OptionalParams : f.param = "version"}
    \cup {Opt("unopened", "count", PyInt(1))}

(* Omit-if-default for parameter f of the call that was built.             *)
OmitIfDefault(f) ==
  LET arg == call.a[f.param]
      key == FieldOf(f.param)
  IN  IF arg = f.default
        THEN ~HasKey(data, key)
        ELSE HasKey(data, key) /\ GetItem(data, key) = arg

(* Always-if-truthy for parameter param written under key.                 *)
EmitIfTruthy(param, key) ==
  IF Truthy(call.a[param])
    THEN HasKey(data, key) /\ GetItem(data, key) = call.a[param]
    ELSE ~HasKey(data, key)

(* C1 as stated: every listed field, version and unopened's count          *)
(* included, is absent when built with its declared default and present    *)
(* with the supplied value when built with any other value.                *)
C1_OmitIfDefault_AsStated ==
  Built => \A f \in C1_Claimed : f.cmd = call.cmd => OmitIfDefault(f)

(* The fields of C1_Claimed the builders treat differently.                *)
C1_Special ==
  {Opt(cmd, "version", PyStr("work_1")) : cmd \in WorkCommands}
    \cup { Opt("unopened", "count", PyInt(1)),
           Opt("sign", "block", PyStr("")),
           Opt("sign", "_hash", PyStr("")),
           Opt("work_generate", "json_block", PyBool(FALSE)) }

(* C1 (amended): every optional field whose default is false, 0 or ""      *)
(* (difficulty of the work groups aside) is absent when built with that    *)
(* default and present with exactly the supplied value otherwise, except:  *)
(* version is present iff the supplied value is "work_1", its default;     *)
(* unopened's count is present iff non-zero, so present at its default 1;  *)
(* sign always writes block, in text form, and writes a supplied hash      *)
(* under the key _hash; work_generate writes json_block only together      *)
(* with a non-empty block.                                                 *)
C1_OmitIfDefault ==
  Built =>
    /\ \A f \in C1_Claimed \ C1_Special : f.cmd = call.cmd => OmitIfDefault(f)
    /\ call.cmd \in WorkCommands =>
         IF call.a.version = PyStr("work_1")
           THEN HasKey(data, "version") /\ GetItem(data, "version") = PyStr("work_1")
           ELSE ~HasKey(data, "version")
    /\ call.cmd = "unopened" => EmitIfTruthy("count", "count")
    /\ call.cmd = "sign" =>
         /\ HasKey(data, "block")
         /\ GetItem(data, "block") =
              IF isinstance_str(call.a.block)
                THEN call.a.block
                ELSE PyStr(json_dumps(call.a.block))
         /\ ~HasKey(data, "hash")
         /\ EmitIfTruthy("_hash", "_hash")
    /\ call.cmd = "work_generate" =>
         IF Truthy(call.a.block) /\ Truthy(call.a.json_block)
           THEN HasKey(data, "json_block") /\ GetItem(data, "json_block") = PyBool(TRUE)
           ELSE ~HasKey(data, "json_block")

(* A built account_history whose non-default offset is in the payload and  *)
(* whose default raw flag is not.                                          *)
C1_Witness ==
  /\ Built
  /\ call.cmd = "account_history"
  /\ call.a.offset = PyInt(2) /\ GetItem(data, "offset") = PyInt(2)
  /\ call.a.raw = PyBool(FALSE) /\ ~HasKey(data, "raw")

(* The inverse-polarity flags: boolean parameters declared with default    *)
(* True.                                                                   *)
InverseFlags ==
  {Opt(cmd, "include_only_confirmed", PyBool(TRUE)) :
     cmd \in {"account_balance", "accounts_balances", "accounts_receivable",
              "receivable", "receivable_exists", "wallet_receivable"}}
    \cup { Opt("block_count", "include_cemented", PyBool(TRUE)),
           Opt("confirmation_info", "contents", PyBool(TRUE)),
           Opt("process", "watch_work", PyBool(TRUE)),
           Opt("account_create", "work", PyBool(TRUE)),
           Opt("accounts_create", "work", PyBool(TRUE)) }

(* C2: each inverse-polarity flag is declared with default true; built     *)
(* with true the payload has no such field, built with false the payload   *)
(* has the field with the value false.  account_balance(account) is        *)
(* exactly {action, account}, and with include_only_confirmed = false it   *)
(* is that payload with include_only_confirmed = false added.              *)
C2_InversePolarity ==
  /\ InverseFlags = {f \in OptionalParams : f.default = PyBool(TRUE)}
  /\ Built =>
       /\ \A f \in InverseFlags :
            f.cmd = call.cmd =>
              IF call.a[f.param] = PyBool(TRUE)
                THEN ~HasKey(data, f.param)
                ELSE HasKey(data, f.param) /\ GetItem(data, f.param) = PyBool(FALSE)
       /\ call.cmd = "account_balance" =>
            LET plain == << [k |-> "action", v |-> PyStr("account_balance")],
                            [k |-> "account", v |-> call.a.account] >>
            IN  data = IF call.a.include_only_confirmed = PyBool(TRUE)
                         THEN plain
                         ELSE Append(plain, [k |-> "include_only_confirmed",
                                             v |-> PyBool(FALSE)])

(* A built block_count(include_cemented = false) carrying the flag, the    *)
(* command whose polarity the mutant below turns round.                    *)
C2_Witness ==
  /\ Built
  /\ call.cmd = "block_count"
  /\ call.a.include_cemented = PyBool(FALSE)
  /\ data = << [k |-> "action", v |-> PyStr("block_count")],
               [k |-> "include_cemented", v |-> PyBool(FALSE)] >>

(* One work-parameter group of the built command: high takes precedence    *)
(* over difficulty.                                                        *)
Precedence(high) ==
  IF Truthy(call.a[high])
    THEN /\ HasKey(data, high) /\ GetItem(data, high) = call.a[high]
         /\ ~HasKey(data, "difficulty")
    ELSE /\ ~HasKey(data, high)
         /\ EmitIfTruthy("difficulty", "difficulty")

(* C3: in work_generate and work_validate a non-zero multiplier is in the  *)
(* payload and difficulty is not; in block_create a non-empty work is in   *)
(* the payload and difficulty is not; difficulty is in the payload only    *)
(* when it is supplied and the higher-precedence member is not; no payload *)
(* holds both members of a group.                                          *)
C3_MutualExclusion ==
  Built =>
    /\ call.cmd \in {"work_generate", "work_validate"} =>
         /\ Precedence("multiplier")
         /\ ~(HasKey(data, "multiplier") /\ HasKey(data, "difficulty"))
    /\ call.cmd = "block_create" =>
         /\ Precedence("work")
         /\ ~(HasKey(data, "work") /\ HasKey(data, "difficulty"))

(* work_generate built with both difficulty and multiplier supplied: the   *)
(* payload carries the multiplier alone.                                   *)
C3_Witness ==
  /\ Built
  /\ call.cmd = "work_generate"
  /\ call.a.difficulty = PyStr("a")
  /\ call.a.multiplier = PyInt(2)
  /\ GetItem(data, "multiplier") = PyInt(2)
  /\ ~HasKey(data, "difficulty")

(***************************************************************************)
(* Properties of construction and transport (checked under Spec, and       *)
(* under SpecSeq where sequential use is the premise).                     *)
(***************************************************************************)
\* Whether the character sequence s begins with p.
StartsWith(s, p) ==
  /\ Len(p) <= Len(s)
  /\ \A i \in 1..Len(p) : s[i] = p[i]

TransactionalUrl == StartsWith(ctor.url, HttpPrefix) \/ StartsWith(ctor.url, HttpsPrefix)
StreamingUrl == StartsWith(ctor.url, WsPrefix) \/ StartsWith(ctor.url, WssPrefix)
Constructed == self.state # "new"

(* C4: once the constructor has run, a connection string beginning with    *)
(* http:// or https:// has given a requests-mode client with a session and *)
(* no socket (no connection attempted or opened); one beginning with ws:// *)
(* or wss:// has given, when the connection came up, a websockets-mode     *)
(* client with a socket and no session; no client has both; and this holds *)
(* for every headers value and tor flag.                                   *)
C4_ModeFromPrefix ==
  Constructed =>
    /\ TransactionalUrl =>
         /\ self.state = "ok" /\ self.mode = "requests"
         /\ self.http_api # NoSession /\ self.wss_api = NoSocket
         /\ sock.attempts = 0 /\ sock.opened = 0
    /\ (StreamingUrl /\ self.state = "ok") =>
         /\ self.mode = "websockets"
         /\ self.wss_api # NoSocket /\ self.http_api = NoSession
         /\ sock.opened = 1
    /\ (StreamingUrl /\ self.state = "failed") => self.exc = "ConnectionError"
    /\ ~(TransactionalUrl /\ StreamingUrl)
    /\ ~(self.http_api # NoSession /\ self.wss_api # NoSocket)
    /\ self.state = "ok" => (self.mode = "requests" <=> TransactionalUrl)
    /\ self.state = "ok" => (self.mode = "websockets" <=> StreamingUrl)

(* A transactional client built from an https:// string with headers and   *)
(* the tor flag set.                                                       *)
C4_Witness ==
  /\ ctor.url = HttpsPrefix \o Host
  /\ ctor.tor /\ ctor.headers # PyNone
  /\ self.state = "ok" /\ self.mode = "requests"
  /\ sock.opened = 0

(* C5: once the constructor has run on a connection string that begins     *)
(* with none of http://, https://, ws://, wss://, it has raised the        *)
(* invalid-url error whose message names the string; no connection was     *)
(* attempted, no session and no socket exist, and no call can be started   *)
(* on the instance, then or later.                                         *)
C5_InvalidUrl ==
  (Constructed /\ ~TransactionalUrl /\ ~StreamingUrl) =>
    /\ self.state = "failed"
    /\ self.exc = "AttributeError"
    /\ self.msg = "Invalid url: " \o Text(ctor.url)
    /\ sock.attempts = 0 /\ sock.opened = 0 /\ ~sock.connected
    /\ self.http_api = NoSession /\ self.wss_api = NoSocket
    /\ self.mode = "unset"
    /\ \A c \in Callers : ~CanStart(c)
    /\ ncalls = 0 /\ ndisc = 0

(* The constructor has rejected "ftp://n".                                 *)
C5_Witness ==
  /\ ctor.url = <<"f", "t", "p", ":", "/", "/", "n">>
  /\ self.state = "failed"
  /\ self.exc = "AttributeError"
  /\ self.msg = "Invalid url: ftp://n"

\* The text of a well-formed reply that reports a node-side failure.
ErrorText == json_dumps(ErrorReply)

\* The exceptions of a call that got no reply: the node was unreachable,
\* the connection was closed, or the read gave up.
ConnectivityErrors ==
  {"ConnectionError", "WebSocketConnectionClosedException", "WebSocketTimeoutException"}

(* C6: in either mode, a call that received the well-formed error reply    *)
(* (in requests mode: with a success status) has returned the decoded      *)
(* mapping, the error field with the node's message in it, and has not     *)
(* raised.  A call that raised either got no reply (connectivity), or got  *)
(* a non-success status, or got a body that is not well-formed.            *)
C6_NodeErrorReturned ==
  \A c \in Callers :
    LET r == ret[c]
    IN  /\ (r.kind # "none" /\ r.text = ErrorText /\ ~raise_for_status(r.status)) =>
             /\ r.kind = "return"
             /\ r.value = ErrorReply
             /\ GetItem(ValOf(r.value), "error") = PyStr("Account not found")
        /\ r.kind = "raise" =>
             \/ r.exc \in ConnectivityErrors /\ r.text = ""
             \/ r.exc = "HTTPError" /\ self.mode = "requests" /\ raise_for_status(r.status)
             \/ r.exc = "JSONDecodeError" /\ ~Decodable(r.text)

(* A websockets-mode call that returned the node's error reply.            *)
C6_Witness ==
  \E c \in Callers :
    /\ self.mode = "websockets"
    /\ ret[c].kind = "return"
    /\ ret[c].text = ErrorText
    /\ ret[c].value = ErrorReply

\* What the constructor makes of ctor in requests mode.
SessionOf(tor) == [proxies |-> IF tor THEN TorProxies ELSE NoProxies]

(* C7: in requests mode a call in flight has issued one request, to the    *)
(* client's URL with the client's headers, and a finished call has issued  *)
(* exactly one; a call answered with a non-success status has raised       *)
(* HTTPError, returned no value and issued no second request; in every     *)
(* state, also after such a failure, mode, URL, headers and session are    *)
(* those of construction and the caller that failed can start a new call.  *)
C7_OnePostNoRetry ==
  (self.state = "ok" /\ self.mode = "requests") =>
    /\ self.url = ctor.url
    /\ self.headers = ctor.headers
    /\ self.http_api = SessionOf(ctor.tor)
    /\ sock = NoConnection
    /\ \A c \in Callers :
         /\ pc[c] \in {"idle", "http_sent"}
         /\ pc[c] = "http_sent" =>
              /\ cur[c].posts = 1
              /\ http[c].id = cur[c].id
              /\ http[c].url = ctor.url /\ http[c].headers = ctor.headers
         /\ ret[c].kind # "none" => ret[c].posts = 1
         /\ (ret[c].kind # "none" /\ ret[c].status >= 400) =>
              /\ ret[c].kind = "raise"
              /\ ret[c].exc = "HTTPError"
              /\ ret[c].value = Unset
         /\ (ret[c].kind = "raise" /\ pc[c] = "idle") => CanStart(c)

(* A caller whose first command raised HTTPError on a 503 and who has      *)
(* since sent its next command on the same client.                         *)
C7_Witness ==
  \E c \in Callers :
    /\ self.mode = "requests"
    /\ ret[c].kind = "raise" /\ ret[c].exc = "HTTPError" /\ ret[c].status = 503
    /\ ret[c].id = 1
    /\ pc[c] = "http_sent" /\ cur[c].id = 2 /\ http[c].method = "POST"

\* The serialized payloads the callers send.
PayloadTexts == {json_dumps(PyDict(Build(cmd))) : cmd \in TransportCalls}

\* The messages of request id that are on the connection, either way.
OnWire(id) ==
  Len(SelectSeq(sock.tx, LAMBDA m : m.id = id /\ m.text \in PayloadTexts))
    + Len(SelectSeq(sock.rx, LAMBDA m : m.re = id))

(* C8: under sequential use of a websockets-mode client, a command that is *)
(* waiting has written one message, its serialized payload, and read none; *)
(* that request or its one reply is what the connection holds; a command   *)
(* that returned has written once and then read once, and its value is the *)
(* decoded reply to its own request (the k-th return answers the k-th      *)
(* request); and whenever no call is in progress the messages written and  *)
(* read on the connection are equal in number and nothing is left on it.   *)
C8_OneWriteOneRead ==
  (self.state = "ok" /\ self.mode = "websockets") =>
    /\ \A c \in Callers :
         /\ pc[c] \in {"idle", "ws_sent"}
         /\ pc[c] = "ws_sent" =>
              /\ cur[c].writes = 1 /\ cur[c].reads = 0
              /\ OnWire(cur[c].id) = 1
              /\ Len(sock.tx) + Len(sock.rx) = 1
              /\ sock.written = sock.read + 1
         /\ ret[c].kind = "return" /\ ret[c].value # PyNone =>
              /\ ret[c].writes = 1 /\ ret[c].reads = 1
              /\ ret[c].re = ret[c].id
              /\ ret[c].value = json_loads(ret[c].text)
         /\ ret[c].kind = "raise" /\ ret[c].writes = 1 =>
              /\ ret[c].reads = 1
              /\ ret[c].re = ret[c].id
    /\ AllIdle =>
         /\ sock.written = sock.read
         /\ sock.tx = <<>> /\ sock.rx = <<>>

(* Three commands issued one after another: the third has returned the     *)
(* reply to the third request, three messages written and three read.      *)
C8_Witness ==
  \E c \in Callers :
    /\ self.mode = "websockets"
    /\ AllIdle
    /\ ret[c].kind = "return" /\ ret[c].id = 3 /\ ret[c].re = 3
    /\ sock.written = 3 /\ sock.read = 3

(* C9: a websockets-mode client puts no lock round send-then-receive and   *)
(* no identifier on a request: while one caller waits for its reply any    *)
(* other idle caller can start a command on the same connection; what is   *)
(* written is the serialized payload and nothing else; and a waiting       *)
(* caller can take the next message of the connection whichever request   *)
(* it answers.                                                             *)
C9_NoSerialization ==
  (self.state = "ok" /\ self.mode = "websockets") =>
    /\ \A c, d \in Callers :
         (c # d /\ pc[c] = "ws_sent" /\ pc[d] = "idle") => CanStart(d)
    /\ \A i \in 1..Len(sock.tx) : sock.tx[i].text \in PayloadTexts
    /\ \A c \in Callers :
         (pc[c] = "ws_sent" /\ sock.rx # <<>>) => ENABLED wss_recv(c)

(* The wrong-waiter state: a caller has returned the reply to the request  *)
(* of the other caller, who sent first and is still waiting.               *)
C9_WrongWaiter ==
  \E c, d \in Callers :
    /\ c # d
    /\ self.mode = "websockets"
    /\ ret[c].kind = "return" /\ ret[c].reads = 1
    /\ pc[d] = "ws_sent"
    /\ ret[c].re = cur[d].id
    /\ ret[c].re < ret[c].id

\* A step that is a call of disconnect().
DisconnectStep == ndisc' = ndisc + 1

(* C10: every call of disconnect leaves the client's fields as they were;  *)
(* in websockets mode it leaves the connection closed, opens none, and a   *)
(* call on an already closed connection changes nothing, so any number of  *)
(* calls ends in the state one call ends in; in requests mode it changes   *)
(* neither the session nor anything else, and every caller that could      *)
(* start a command before can start one after.                             *)
C10_DisconnectIdempotent ==
  [][DisconnectStep =>
       /\ self' = self
       /\ <<http, pc, cur, ret, ncalls>>' = <<http, pc, cur, ret, ncalls>>
       /\ self.mode = "websockets" =>
            /\ ~sock'.connected
            /\ sock'.opened = sock.opened /\ sock'.attempts = sock.attempts
            /\ ~sock.connected => sock' = sock
       /\ self.mode = "requests" =>
            /\ sock' = sock
            /\ \A c \in Callers : CanStart(c) => CanStart(c)'
    ]_vars

(* disconnect has been called twice on a websockets-mode client whose      *)
(* connection was open: the connection is closed.                          *)
C10_Witness ==
  /\ self.state = "ok" /\ self.mode = "websockets"
  /\ ndisc = 2
  /\ sock.opened = 1 /\ ~sock.connected

\* json.dumps of the payload a command method builds.
Serialized(cmd) == json_dumps(PyDict(Build(cmd)))

(* C12: whenever a caller issues a command, what reaches the endpoint is   *)
(* the serialization of the payload the method built, the same text in     *)
(* both modes: in requests mode it is the body of the POST to the client's *)
(* URL, in websockets mode it is the one message appended to the           *)
(* connection; no field is added, removed or rewritten on the way.         *)
C12_SameBytes ==
  [][\A c \in Callers, cmd \in TransportCalls :
       Command(c, cmd) =>
         /\ self.mode = "requests" =>
              /\ http'[c].method = "POST"
              /\ http'[c].body = Serialized(cmd)
         /\ (self.mode = "websockets" /\ sock.connected) =>
              sock'.tx = Append(sock.tx, [text |-> Serialized(cmd), id |-> ncalls + 1])
    ]_vars

(* The same command in flight on a requests-mode client: its body is the   *)
(* text a websockets-mode client writes for it.                            *)
C12_Witness ==
  \E c \in Callers, cmd \in TransportCalls :
    /\ cmd.cmd = "account_balance"
    /\ self.mode = "requests"
    /\ pc[c] = "http_sent"
    /\ http[c].body = Serialized(cmd)
    /\ http[c].body =
         "{\"action\": \"account_balance\", \"account\": \"a\", \"include_only_confirmed\": false}"

(* C13: in a built republish, a non-zero sources is in the payload         *)
(* together with count at the supplied value, and so is a non-zero         *)
(* destinations; when both are zero the payload is exactly action and      *)
(* hash, without count.                                                    *)
C13_RepublishCount ==
  (Built /\ call.cmd = "republish") =>
    /\ Truthy(call.a.sources) =>
         /\ HasKey(data, "sources") /\ GetItem(data, "sources") = call.a.sources
         /\ HasKey(data, "count") /\ GetItem(data, "count") = call.a.count
    /\ Truthy(call.a.destinations) =>
         /\ HasKey(data, "destinations")
         /\ GetItem(data, "destinations") = call.a.destinations
         /\ HasKey(data, "count") /\ GetItem(data, "count") = call.a.count
    /\ (~Truthy(call.a.sources) /\ ~Truthy(call.a.destinations)) =>
         data = << [k |-> "action", v |-> PyStr("republish")],
                   [k |-> "hash", v |-> call.a._hash] >>

(* republish(hash, sources = 2) with count at its default 1: the payload   *)
(* is action, hash, sources and count.                                     *)
C13_Witness ==
  /\ Built
  /\ call.cmd = "republish"
  /\ call.a.sources = PyInt(2) /\ call.a.count = PyInt(1)
  /\ call.a.destinations = PyInt(0)
  /\ data = << [k |-> "action", v |-> PyStr("republish")],
               [k |-> "hash", v |-> call.a._hash],
               [k |-> "sources", v |-> PyInt(2)],
               [k |-> "count", v |-> PyInt(1)] >>

(* C14: a websockets-mode client has opened exactly one connection, the    *)
(* one its constructor opened to the client's URL, in every state: after   *)
(* any commands, failed commands and disconnects none was opened or even   *)
(* attempted again.  A requests-mode client has opened and attempted none. *)
C14_OneConnection ==
  self.state = "ok" =>
    /\ self.mode = "websockets" =>
         /\ sock.opened = 1 /\ sock.attempts = 1
         /\ sock.url = ctor.url
    /\ self.mode = "requests" =>
         /\ sock.opened = 0 /\ sock.attempts = 0
         /\ ~sock.connected

(* A command sent after disconnect has failed on the closed connection,    *)
(* and the client has still opened one connection only.                    *)
C14_Witness ==
  \E c \in Callers :
    /\ self.mode = "websockets"
    /\ ndisc >= 1
    /\ ret[c].kind = "raise" /\ ret[c].exc = "WebSocketConnectionClosedException"
    /\ ret[c].writes = 0
    /\ sock.opened = 1 /\ ~sock.connected

(* C15: in requests mode, under every interleaving of the callers, the     *)
(* exchange a caller has in flight is the one of its own call and differs  *)
(* from the other caller's; a call that got a response got the response    *)
(* to its own request, and what it returned is that response decoded; the  *)
(* client's fields are the same whatever the callers do.                   *)
C15_OwnReply ==
  (self.state = "ok" /\ self.mode = "requests") =>
    /\ \A c \in Callers :
         /\ pc[c] = "http_sent" => http[c].id = cur[c].id
         /\ pc[c] = "idle" => http[c] = NoExchange
         /\ (ret[c].kind # "none" /\ ret[c].exc # "ConnectionError") =>
              ret[c].re = ret[c].id
         /\ ret[c].kind = "return" => ret[c].value = json_loads(ret[c].text)
    /\ \A c, d \in Callers :
         (c # d /\ pc[c] = "http_sent" /\ pc[d] = "http_sent") =>
           http[c].id # http[d].id
    /\ self = [NewClient EXCEPT !.state = "ok", !.mode = "requests",
                                !.url = ctor.url, !.headers = ctor.headers,
                                !.http_api = SessionOf(ctor.tor)]

(* Two calls overlap on a requests-mode client: the later one has returned *)
(* the reply to its own request while the earlier one is still in flight.  *)
C15_Witness ==
  \E c, d \in Callers :
    /\ c # d
    /\ self.mode = "requests"
    /\ pc[d] = "http_sent" /\ cur[d].id = 1
    /\ ret[c].kind = "return" /\ ret[c].id = 2 /\ ret[c].re = 2

\* The position of key in the payload d (0 when absent).
IndexOf(d, key) ==
  IF HasKey(d, key) THEN CHOOSE i \in 1..Len(d) : d[i].k = key ELSE 0

\* The required fields are in the payload in the order of the signature, and
\* every optional field of the command that is in the payload comes after them.
RequiredInOrder ==
  LET req == RequiredParams(call.cmd)
      at(i) == IndexOf(data, FieldOf(req[i]))
  IN  /\ \A i \in 1..Len(req) : at(i) > 1
      /\ \A i, j \in 1..Len(req) : i < j => at(i) < at(j)
      /\ \A f \in OptionalParams :
           (f.cmd = call.cmd /\ HasKey(data, FieldOf(f.param))) =>
             \A i \in 1..Len(req) : at(i) < IndexOf(data, FieldOf(f.param))

\* Every required parameter is in the payload with the supplied value.
RequiredPresent ==
  \A i \in 1..Len(RequiredParams(call.cmd)) :
    LET param == RequiredParams(call.cmd)[i]
    IN  /\ HasKey(data, FieldOf(param))
        /\ GetItem(data, FieldOf(param)) = call.a[param]

(* C16 as stated: in every built payload action is first, with the         *)
(* command's name, and the required fields follow it in declared order     *)
(* with the supplied values, before any optional field.                    *)
C16_Required_AsStated ==
  Built =>
    /\ data[1] = [k |-> "action", v |-> PyStr(call.cmd)]
    /\ RequiredInOrder

(* C16 (amended): in every built payload action is first, with the         *)
(* command's name, and every required field is present with exactly the    *)
(* supplied value, empty or zero included; in every command but            *)
(* block_create the required fields follow action in declared order,       *)
(* before any optional field; block_create writes the fixed type "state"   *)
(* and balance next, then its optional wallet, account, key, source,       *)
(* destination and link, then representative and previous, then the rest.  *)
C16_Required ==
  Built =>
    /\ data[1] = [k |-> "action", v |-> PyStr(call.cmd)]
    /\ RequiredPresent
    /\ call.cmd # "block_create" => RequiredInOrder
    /\ call.cmd = "block_create" =>
         /\ data[2] = [k |-> "type", v |-> PyStr("state")]
         /\ data[3] = [k |-> "balance", v |-> call.a.balance]
         /\ IndexOf(data, "previous") = IndexOf(data, "representative") + 1
         /\ \A key \in {"wallet", "account", "key", "source", "destination", "link"} :
              /\ HasKey(data, key) <=> Truthy(call.a[key])
              /\ HasKey(data, key) =>
                   /\ 3 < IndexOf(data, key)
                   /\ IndexOf(data, key) < IndexOf(data, "representative")
         /\ \A key \in {"work", "difficulty", "version", "json_block"} :
              HasKey(data, key) => IndexOf(data, "previous") < IndexOf(data, key)

(* A built block_create with every required argument empty and a wallet:   *)
(* the empty values are in the payload, the wallet before representative.  *)
C16_Witness ==
  /\ Built
  /\ call.cmd = "block_create"
  /\ call.a.balance = PyStr("") /\ call.a.representative = PyStr("")
  /\ call.a.previous = PyStr("")
  /\ call.a.wallet = PyStr("a")
  /\ data[3] = [k |-> "balance", v |-> PyStr("")]
  /\ data[4] = [k |-> "wallet", v |-> PyStr("a")]
  /\ GetItem(data, "representative") = PyStr("")
  /\ GetItem(data, "previous") = PyStr("")

\* The commands that take a count with nominal default 1 and write it with no
\* test.
CountCommands ==
  {"account_history", "accounts_receivable", "chain", "frontiers", "ledger",
   "representatives", "successors", "unchecked", "unchecked_keys",
   "accounts_create", "wallet_receivable", "wallet_republish"}

(* C17 as stated: in the twelve commands count is in the payload, with the *)
(* supplied value, if and only if the supplied value is non-zero.          *)
C17_Count_AsStated ==
  (Built /\ call.cmd \in CountCommands) => EmitIfTruthy("count", "count")

(* C17 (amended): in the twelve commands count is declared with default 1  *)
(* and is in every payload with exactly the supplied value, also when that *)
(* value is 0.                                                             *)
C17_Count ==
  /\ \A cmd \in CountCommands : Opt(cmd, "count", PyInt(1)) \in OptionalParams
  /\ (Built /\ call.cmd \in CountCommands) =>
       /\ HasKey(data, "count")
       /\ GetItem(data, "count") = call.a.count

(* chain built with count = 0: the payload carries count 0.                *)
C17_Witness ==
  /\ Built
  /\ call.cmd = "chain"
  /\ call.a.count = PyInt(0)
  /\ HasKey(data, "count") /\ GetItem(data, "count") = PyInt(0)

\* The payload of republish with the fields named in keys after action and hash.
RepublishPayload(keys) ==
  << [k |-> "action", v |-> PyStr("republish")], [k |-> "hash", v |-> call.a._hash] >>
    \o [i \in 1..Len(keys) |-> [k |-> keys[i], v |-> call.a[keys[i]]]]

(* C18 as stated: when republish is built with both sources and            *)
(* destinations non-zero, the payload contains sources and count and does  *)
(* not contain destinations.                                               *)
C18_Republish_AsStated ==
  (Built /\ call.cmd = "republish"
     /\ Truthy(call.a.sources) /\ Truthy(call.a.destinations)) =>
    /\ HasKey(data, "sources") /\ HasKey(data, "count")
    /\ ~HasKey(data, "destinations")

(* C18 (amended): sources and destinations are written independently of    *)
(* each other: built with both non-zero, the payload of republish is       *)
(* action, hash, sources, count and destinations, each counter with its    *)
(* supplied value; built with one of them non-zero it holds that one and   *)
(* count, and not the other.                                               *)
C18_Republish ==
  (Built /\ call.cmd = "republish") =>
    data = CASE Truthy(call.a.sources) /\ Truthy(call.a.destinations) ->
                  RepublishPayload(<<"sources", "count", "destinations">>)
             [] Truthy(call.a.sources) /\ ~Truthy(call.a.destinations) ->
                  RepublishPayload(<<"sources", "count">>)
             [] ~Truthy(call.a.sources) /\ Truthy(call.a.destinations) ->
                  RepublishPayload(<<"destinations", "count">>)
             [] OTHER -> RepublishPayload(<<>>)

(* republish built with sources = 1 and destinations = 2: both counters    *)
(* are in the payload.                                                     *)
C18_Witness ==
  /\ Built
  /\ call.cmd = "republish"
  /\ call.a.sources = PyInt(1) /\ call.a.destinations = PyInt(2)
  /\ GetItem(data, "sources") = PyInt(1)
  /\ GetItem(data, "destinations") = PyInt(2)
  /\ HasKey(data, "count")

\* The text form of a block: a string as it is, a mapping serialized.
BlockText(block) ==
  IF TypeOf(block) = "str" THEN block ELSE PyStr(json_dumps(block))

(* C19 as stated: in every built sign and process the block in the payload *)
(* is a string: a supplied string unchanged, a supplied mapping replaced    *)
(* by its serialized text.                                                 *)
C19_BlockText_AsStated ==
  (Built /\ call.cmd \in {"sign", "process"}) =>
    /\ TypeOf(GetItem(data, "block")) = "str"
    /\ GetItem(data, "block") = BlockText(call.a.block)

(* C19 (amended): sign puts the block into the payload in text form, a     *)
(* string unchanged and a mapping serialized; process puts the block in as *)
(* supplied, so a mapping stays a mapping in its payload.                  *)
C19_BlockText ==
  /\ (Built /\ call.cmd = "sign") =>
       /\ TypeOf(GetItem(data, "block")) = "str"
       /\ GetItem(data, "block") = BlockText(call.a.block)
  /\ (Built /\ call.cmd = "process") =>
       /\ GetItem(data, "block") = call.a.block
       /\ TypeOf(GetItem(data, "block")) = TypeOf(call.a.block)

(* process built with a mapping as block: the payload carries the mapping. *)
C19_Witness ==
  /\ Built
  /\ call.cmd = "process"
  /\ call.a.block = PyDict(<<[k |-> "type", v |-> PyStr("state")]>>)
  /\ TypeOf(GetItem(data, "block")) = "dict"

(* C20: once the client is constructed, no step (no command, no _get, no   *)
(* reply or failure, no disconnect) changes its mode, its URL or its       *)
(* headers, and it stays constructed: a requests-mode client is in         *)
(* requests mode ever after, a websockets-mode client in websockets mode.  *)
C20_FixedAtConstruction ==
  [][self.state = "ok" =>
       /\ self'.state = "ok"
       /\ self'.mode = self.mode
       /\ self'.url = self.url
       /\ self'.headers = self.headers
       /\ self.mode \in {"requests", "websockets"}
       /\ self.url = ctor.url /\ self.headers = ctor.headers
    ]_vars

(* A websockets-mode client after two disconnects and a command that       *)
(* failed: mode, URL and headers are those it was constructed with.        *)
C20_Witness ==
  \E c \in Callers :
    /\ ndisc = 2
    /\ ret[c].kind = "raise"
    /\ self.mode = "websockets"
    /\ StartsWith(self.url, WsPrefix)
    /\ self.headers = ctor.headers /\ self.headers # PyNone

\* The Python parameter names that differ from the protocol field name.
UnderscoreParams == {"_hash", "hash_", "_id", "_async", "_type"}

\* The underscore parameters of the call that was built.
UnderscoreArgs == {p \in UnderscoreParams : p \in DOMAIN call.a}

(* C21: in every built payload a supplied _hash or hash_ is under the      *)
(* field hash, _id under id, _async under async and _type under type, with *)
(* the supplied value, and no field of the payload bears the underscored   *)
(* Python name.                                                            *)
C21_ProtocolNames ==
  Built =>
    /\ \A p \in UnderscoreArgs :
         Truthy(call.a[p]) =>
           /\ HasKey(data, FieldOf(p))
           /\ GetItem(data, FieldOf(p)) = call.a[p]
    /\ \A i \in 1..Len(data) : data[i].k \notin UnderscoreParams

(* C22: block_create, work_generate and work_validate declare version with *)
(* default "work_1"; their payload has the field version exactly when the  *)
(* supplied version is "work_1", and then with that value; any other       *)
(* supplied version, "work_2" or the empty string, leaves no version field  *)
(* in the payload.                                                         *)
C22_VersionWhitelist ==
  /\ \A cmd \in WorkCommands : Opt(cmd, "version", PyStr("work_1")) \in OptionalParams
  /\ (Built /\ call.cmd \in WorkCommands) =>
       /\ HasKey(data, "version") <=> call.a.version = PyStr("work_1")
       /\ HasKey(data, "version") => GetItem(data, "version") = PyStr("work_1")
       /\ \A i \in 1..Len(data) : data[i].v # PyStr("work_2")

(* work_validate built with version "work_2": the payload has no version.  *)
C22_Witness ==
  /\ Built
  /\ call.cmd = "work_validate"
  /\ call.a.version = PyStr("work_2")
  /\ ~HasKey(data, "version")

(***************************************************************************)
(* SpecSeqTimeout: sequential use as in SpecSeq, on a connection whose     *)
(* reads can give up (a timeout set on the socket below the client).       *)
(***************************************************************************)
NextSeqTimeout ==
  \/ Construct
  \/ \E c \in Callers, cmd \in TransportCalls :
       AllIdle /\ ncalls < MaxSeqCalls /\ Command(c, cmd)
  \/ \E c \in Callers : AllIdle /\ ncalls < MaxSeqCalls /\ _get(c)
  \/ \E c \in Callers, response \in Responses : http_response(c, response)
  \/ \E c \in Callers : wss_recv(c)
  \/ \E c \in Callers : wss_recv_timeout(c)
  \/ \E text \in ReplyTexts : NodeAnswer(text)
  \/ AllIdle /\ disconnect

SpecSeqTimeout == Init /\ [][NextSeqTimeout]_vars

\* The replies written for but not yet read by anyone.
Lag(s) == s.written - s.read

\* Caller c's read gives up in this step.
ReadFails(c) ==
  /\ pc[c] = "ws_sent" /\ pc'[c] = "idle"
  /\ ret'[c].kind = "raise" /\ ret'[c].exc = "WebSocketTimeoutException"

\* Caller c's read delivers a message in this step.
ReadDelivers(c) ==
  /\ pc[c] = "ws_sent" /\ pc'[c] = "idle"
  /\ ret'[c].reads = 1 /\ ret'[c].exc \in {"", "JSONDecodeError"}

(* C23: under sequential use of a websockets-mode client, a read that      *)
(* fails on an open connection leaves the connection exactly as it was:    *)
(* open, the same one, the unanswered request or its unread reply still on *)
(* it.  A later read delivers the oldest unread reply: when reads have     *)
(* failed before, that is the reply to an earlier request than the         *)
(* caller's own, and the connection stays as many replies behind as        *)
(* before; when none has failed it is the reply to the caller's request.   *)
C23_OffByOne ==
  [][\A c \in Callers :
       /\ ReadFails(c) =>
            /\ sock' = sock
            /\ sock.connected /\ sock.opened = 1
            /\ Len(sock.tx) + Len(sock.rx) = Lag(sock)
       /\ ReadDelivers(c) =>
            /\ ret'[c].re = Head(sock.rx).re
            /\ Lag(sock') = Lag(sock) - 1
            /\ Len(sock'.tx) + Len(sock'.rx) = Lag(sock')
            /\ ret'[c].id - ret'[c].re >= Lag(sock')
            /\ Lag(sock') = 0 <=> ret'[c].re = ret'[c].id
            /\ sock'.connected /\ sock'.opened = 1
    ]_vars

(* The first command's read failed; the second command has returned the    *)
(* reply to the first request and the third the reply to the second, with  *)
(* the reply to the third still unread on the one connection.              *)
C23_Witness ==
  \E c, d \in Callers :
    /\ c # d
    /\ self.mode = "websockets" /\ AllIdle
    /\ ret[d].kind = "return" /\ ret[d].id = 2 /\ ret[d].re = 1
    /\ ret[c].kind = "return" /\ ret[c].id = 3 /\ ret[c].re = 2
    /\ sock.written = 3 /\ sock.read = 2
    /\ sock.connected /\ sock.opened = 1
=============================================================================
